---- MODULE Spec2Model ----
(***************************************************************************)
(* Model of paperless-ngx-privatemode-ai: the LLM gateway                  *)
(* (internal/llm.go) and the two batch pipelines of package processor.     *)
(*                                                                         *)
(* Representation.  A Go string is a sequence of tokens (TLA+ strings):    *)
(* a token is one byte of document text or one indivisible piece of fixed  *)
(* text, so "" is << >>, len(s) is Len(s) and s[:n] is SubSeq(s, 1, n).    *)
(* A Go error is the sequence of its messages, outermost first; nil is     *)
(* << >>.  A float64 score is held as an integer number of tenths.         *)
(***************************************************************************)
EXTENDS Integers, Sequences, FiniteSets, TLC

VARIABLES
    call,       \* the last LLM gateway call made directly: inputs and result
    cfg,        \* the loaded configuration (the part the model reads)
    mode,       \* "title" (SetTitleAction) or "ocr" (SetOcrInContentAction)
    autonomous, \* ActionExecutor.autonomous
    docs,       \* the filtered documents handed to the pipeline
    idx,        \* position of the pipeline's for loop in docs (1-based)
    pc,         \* where the single thread of control stands
    stats,      \* ProgressStats
    work,       \* locals of the current iteration (captions, OCR text, ...)
    cur,        \* history of the current / last finished iteration
    iterStart,  \* stats as they were when that iteration began
    order,      \* ids of the documents whose iteration has begun, in order
    returned    \* what the pipeline function returned ("none" while running)

vars == <<call, cfg, mode, autonomous, docs, idx, pc, stats, work, cur,
          iterStart, order, returned>>

gatewayVars == <<call>>
pipelineVars == <<cfg, mode, autonomous, docs, idx, pc, stats, work, cur,
                  iterStart, order, returned>>

-----------------------------------------------------------------------------
(* Bounds of the model *)

MaxDocs == 2
MaxRedo == 2
MaxFilterDocs == 3
MaxPatterns == 2

-----------------------------------------------------------------------------
(* Strings and errors *)

Nil == << >>

Contains(e, m) == \E i \in 1..Len(e) : e[i] = m

Errorf(msg, inner) == <<msg>> \o inner

RECURSIVE ReplaceAll(_, _, _)
ReplaceAll(s, old, new) ==
    IF s = << >> THEN << >>
    ELSE IF Head(s) = old THEN new \o ReplaceAll(Tail(s), old, new)
    ELSE <<Head(s)>> \o ReplaceAll(Tail(s), old, new)

-----------------------------------------------------------------------------
(* What one httpClient.Do(req) can hand back *)

Http200 == [err |-> FALSE, resp |-> TRUE, status |-> 200, msg |-> Nil]
Http204 == [err |-> FALSE, resp |-> TRUE, status |-> 204, msg |-> Nil]
Http500 == [err |-> FALSE, resp |-> TRUE, status |-> 500, msg |-> Nil]
\* a transport failure: net/http returns a nil *Response with the error
TransportErr ==
    [err |-> TRUE, resp |-> FALSE, status |-> 0,
     msg |-> <<"dial tcp: connection refused">>]
\* the redirect policy failed: net/http returns the last response, its body
\* already closed, together with the error
RedirectErr ==
    [err |-> TRUE, resp |-> TRUE, status |-> 302,
     msg |-> <<"stopped after 10 redirects">>]

HttpOutcomes == {Http200, Http204, Http500, TransportErr, RedirectErr}

NoResp == [err |-> FALSE, resp |-> FALSE, status |-> 0, msg |-> Nil]

-----------------------------------------------------------------------------
(* internal/llm.go: doRequestWithRetry *)

maxRetries == 3

\* The value a call of the gateway's HTTP layer produces: the response and
\* error it returns, or a panic that unwinds the program; with it, how many
\* times httpClient.Do ran and the sleeps (in ms) taken between the runs.
Returned(resp, err, calls, sleeps) ==
    [resp |-> resp, err |-> err, panic |-> FALSE, calls |-> calls,
     sleeps |-> sleeps]

Panicked(calls, sleeps) ==
    [resp |-> NoResp, err |-> Nil, panic |-> TRUE, calls |-> calls,
     sleeps |-> sleeps]

\* The for loop from its attempt-th iteration on; err is the loop's err
\* variable, outs[k] what the k-th httpClient.Do hands back.
RECURSIVE retryLoop(_, _, _, _)
retryLoop(outs, attempt, err, sleeps) ==
    IF attempt > maxRetries
    THEN Returned(NoResp,
                  Errorf("failed to connect after " \o ToString(maxRetries)
                         \o " attempts", err),
                  maxRetries, sleeps)
    ELSE LET o == outs[attempt] IN
         IF ~o.err
         THEN Returned(o, Nil, attempt, sleeps)
         \* resp.Body of a nil response: nil pointer dereference
         ELSE IF ~o.resp
         THEN Panicked(attempt, sleeps)
         ELSE IF attempt < maxRetries
         THEN retryLoop(outs, attempt + 1, o.msg,
                        Append(sleeps, 100 * attempt))
         ELSE retryLoop(outs, attempt + 1, o.msg, sleeps)

\* doRequestWithRetry, had it also retried a response whose status is not 200
RECURSIVE retryLoopOnStatus(_, _, _, _)
retryLoopOnStatus(outs, attempt, err, sleeps) ==
    IF attempt > maxRetries
    THEN Returned(NoResp,
                  Errorf("failed to connect after " \o ToString(maxRetries)
                         \o " attempts", err),
                  maxRetries, sleeps)
    ELSE LET o == outs[attempt] IN
         IF ~o.err /\ (o.status = 200 \/ attempt = maxRetries)
         THEN Returned(o, Nil, attempt, sleeps)
         ELSE IF o.err /\ ~o.resp
         THEN Panicked(attempt, sleeps)
         ELSE IF attempt < maxRetries
         THEN retryLoopOnStatus(outs, attempt + 1, o.msg,
                                Append(sleeps, 100 * attempt))
         ELSE retryLoopOnStatus(outs, attempt + 1, o.msg, sleeps)

doRequestWithRetry_RetryOnStatus(outs) ==
    retryLoopOnStatus(outs, 1, Nil, << >>)

doRequestWithRetry(outs) == retryLoop(outs, 1, Nil, << >>)

-----------------------------------------------------------------------------
(* The configuration the gateway reads *)

ModelTitleGeneration == <<"title-model">>
ModelOCR == <<"ocr-model">>
PromptOCR == <<"Extract all text from this image.">>
PromptTitleGeneration ==
    <<"Return possible titles, read at most ", "{truncate_chars}",
      " characters: ", "{content}">>

\* Processing.TitleGeneration.TruncateCharactersOfContent
TruncateValues == {-1, 0, 2}

Configs == [truncate : TruncateValues]

-----------------------------------------------------------------------------
(* Texts an LLM can answer with, and encoding/json on them *)

Caption(c, s) == [Caption |-> c, Score |-> s]

TextProse == <<"Sure! Here are some titles: Invoice">>
TextTwo ==
    <<"{summarize:An invoice,captions:[{Invoice Jan,0.4},{Invoice January 2024,0.9}]}">>
TextTie ==
    <<"{summarize:A letter,captions:[{Letter A,0.5},{Letter B,0.5}]}">>
TextNoCaptions == <<"{summarize:A blank page,captions:[]}">>
TextAbsent == <<"{summarize:A blank page}">>
TextBlankCaption == <<"{summarize:Unreadable,captions:[{,0.7}]}">>
TextOcr == <<"I", "n", "v", "o", "i", "c", "e">>
TextMany == <<"{summarize:A contract,captions:[{Title 1,1.0},...,{Title 13,0.0}]}">>

\* the length up to which the sort package sorts a slice by insertion
insertionSortThreshold == 12

\* thirteen captions: the first two share the best score, the last two the
\* worst
ManyCaptions ==
    [i \in 1..(insertionSortThreshold + 1) |->
       [Caption |-> <<"Title ", ToString(i)>>,
        Score |-> IF i <= 2 THEN 10
                  ELSE IF i <= insertionSortThreshold THEN 12 - i
                  ELSE 0]]

TitleTexts ==
    {TextProse, TextTwo, TextTie, TextNoCaptions, TextAbsent,
     TextBlankCaption, Nil}

OcrTexts == {TextOcr, Nil}

NoCaptions == [Summarize |-> Nil, Captions |-> << >>]

\* json.Unmarshal([]byte(text), &captionResp): the decoded value, or ok
\* FALSE where the text is not JSON for an object
UnmarshalCaptionResponse(text) ==
    CASE text = TextTwo ->
           [ok |-> TRUE,
            val |-> [Summarize |-> <<"An invoice">>,
                     Captions |-> <<Caption(<<"Invoice Jan">>, 4),
                                    Caption(<<"Invoice January 2024">>, 9)>>]]
      [] text = TextTie ->
           [ok |-> TRUE,
            val |-> [Summarize |-> <<"A letter">>,
                     Captions |-> <<Caption(<<"Letter A">>, 5),
                                    Caption(<<"Letter B">>, 5)>>]]
      [] text = TextNoCaptions ->
           [ok |-> TRUE,
            val |-> [Summarize |-> <<"A blank page">>, Captions |-> << >>]]
      [] text = TextAbsent ->
           [ok |-> TRUE,
            val |-> [Summarize |-> <<"A blank page">>, Captions |-> << >>]]
      [] text = TextBlankCaption ->
           [ok |-> TRUE,
            val |-> [Summarize |-> <<"Unreadable">>,
                     Captions |-> <<Caption(Nil, 7)>>]]
      [] text = TextMany ->
           [ok |-> TRUE,
            val |-> [Summarize |-> <<"A contract">>,
                     Captions |-> ManyCaptions]]
      [] OTHER -> [ok |-> FALSE, val |-> NoCaptions]

(* HTTP response bodies: the raw bytes, whether reading them fails, whether *)
(* they are JSON, and what ChatResponse / ModelsResponse decode from them   *)
Body(raw, readErr, json, choices, data) ==
    [raw |-> raw, readErr |-> readErr, json |-> json, choices |-> choices,
     data |-> data]

BodyGarbage == Body(<<"<html>Bad Gateway</html>">>, FALSE, FALSE, << >>, << >>)
BodyReadErr == Body(<<"{choi">>, TRUE, FALSE, << >>, << >>)
BodyNoChoices == Body(<<"{choices:[]}">>, FALSE, TRUE, << >>, << >>)
BodyChoices(texts) == Body(<<"{choices:[...]}">>, FALSE, TRUE, texts, << >>)
BodyModels(ids) == Body(<<"{data:[...]}">>, FALSE, TRUE, << >>, ids)

TitleBodies ==
    {BodyGarbage, BodyReadErr, BodyNoChoices, BodyChoices(<<TextTwo, TextProse>>)}
    \cup {BodyChoices(<<t>>) : t \in TitleTexts}

OcrBodies ==
    {BodyGarbage, BodyReadErr, BodyNoChoices, BodyChoices(<<TextOcr, Nil>>)}
    \cup {BodyChoices(<<t>>) : t \in OcrTexts}

ModelsBodies ==
    {BodyGarbage, BodyReadErr}
    \cup {BodyModels(ids) :
            ids \in {<< >>, <<ModelTitleGeneration>>, <<ModelOCR>>,
                     <<ModelOCR, ModelTitleGeneration>>,
                     <<<<"other-model">>, ModelOCR>>,
                     <<<<"other-model">>, ModelTitleGeneration, ModelOCR>>}}

\* what can go wrong between building a chat request and sending it:
\* http.NewRequest rejects the URL, or the debug script cannot be written
PrepOutcomes == {"ok", "request", "debug"}

\* the world as one gateway call meets it
Envs(bodies) ==
    [prep : PrepOutcomes, outs : [1..maxRetries -> HttpOutcomes],
     body : bodies]

-----------------------------------------------------------------------------
(* internal/llm.go: the gateway's calls.  Each yields its Go results (val,  *)
(* err) or a panic, the HTTP activity it caused and the request it built.   *)

NoHttp == [calls |-> 0, sleeps |-> << >>]
NoRequest == [model |-> Nil, prompt |-> Nil, image |-> Nil, schema |-> FALSE]

Result(val, err, http, req) ==
    [val |-> val, err |-> err, panic |-> FALSE, calls |-> http.calls,
     sleeps |-> http.sleeps, req |-> req]

Crash(val, http, req) ==
    [val |-> val, err |-> Nil, panic |-> TRUE, calls |-> http.calls,
     sleeps |-> http.sleeps, req |-> req]

\* the part of both chat calls from doRequestWithRetry to the return
\* the exchange, had an answer without choices counted as an empty text
chatExchange_NoChoicesIsEmpty(req, env) ==
    LET r == doRequestWithRetry(env.outs) IN
    IF r.panic THEN Crash(Nil, r, req)
    ELSE IF r.err # Nil
    THEN Result(Nil, Errorf("failed to send request", r.err), r, req)
    ELSE IF r.resp.status # 200
    THEN Result(Nil,
                <<"unexpected status code: " \o ToString(r.resp.status),
                  ", response: ">> \o env.body.raw,
                r, req)
    ELSE IF env.body.readErr
    THEN Result(Nil, <<"failed to read response", "unexpected EOF">>, r, req)
    ELSE IF ~env.body.json
    THEN Result(Nil, <<"failed to parse response", "invalid character">>,
                r, req)
    ELSE IF Len(env.body.choices) = 0
    THEN Result(Nil, Nil, r, req)
    ELSE Result(env.body.choices[1], Nil, r, req)

chatExchange(req, env) ==
    LET r == doRequestWithRetry(env.outs) IN
    IF r.panic THEN Crash(Nil, r, req)
    ELSE IF r.err # Nil
    THEN Result(Nil, Errorf("failed to send request", r.err), r, req)
    ELSE IF r.resp.status # 200
    THEN Result(Nil,
                <<"unexpected status code: " \o ToString(r.resp.status),
                  ", response: ">> \o env.body.raw,
                r, req)
    ELSE IF env.body.readErr
    THEN Result(Nil, <<"failed to read response", "unexpected EOF">>, r, req)
    ELSE IF ~env.body.json
    THEN Result(Nil, <<"failed to parse response", "invalid character">>,
                r, req)
    ELSE IF Len(env.body.choices) = 0
    THEN Result(Nil, <<"no choices in response">>, r, req)
    ELSE Result(env.body.choices[1], Nil, r, req)

\* the part of both chat calls before the request is sent
chatPrepare(env) ==
    CASE env.prep = "request" -> <<"failed to create request", "invalid URL">>
      [] env.prep = "debug" ->
           <<"failed to save debug script", "failed to write debug script",
             "permission denied">>
      [] OTHER -> Nil

sendStructuredChatRequest(model, prompt, env) ==
    LET req == [model |-> model, prompt |-> prompt, image |-> Nil,
                schema |-> TRUE]
    IN  IF chatPrepare(env) # Nil
        THEN Result(Nil, chatPrepare(env), NoHttp, NoRequest)
        ELSE chatExchange(req, env)

\* the image travels as a base64 data URL inside the message
sendOCRRequest(model, prompt, imageData, env) ==
    LET req == [model |-> model, prompt |-> prompt, image |-> imageData,
                schema |-> FALSE]
    IN  IF chatPrepare(env) # Nil
        THEN Result(Nil, chatPrepare(env), NoHttp, NoRequest)
        ELSE chatExchange(req, env)

EmptyContentResponse ==
    [Summarize |-> <<"Empty document content">>,
     Captions |-> <<Caption(<<"EMPTY_CONTENT">>, 0)>>]

Truncate(content, n) ==
    IF n > 0 /\ Len(content) > n THEN SubSeq(content, 1, n) ELSE content

TitlePrompt(content, config) ==
    ReplaceAll(ReplaceAll(ModelTitleGeneration, "{content}",
                          Truncate(content, config.truncate)),
               "{truncate_chars}", <<ToString(config.truncate)>>)

\* captionsFromResponse, had it dropped an answer it cannot parse
captionsFromResponse_DropUnparsable(response) ==
    LET parsed == UnmarshalCaptionResponse(response) IN
    IF ~parsed.ok
    THEN [Summarize |-> <<"Failed to parse LLM response">>,
          Captions |-> << >>]
    ELSE IF Len(parsed.val.Captions) = 0
    THEN [Summarize |-> parsed.val.Summarize,
          Captions |-> <<Caption(response, 0)>>]
    ELSE parsed.val

\* captionsFromResponse, had it passed an empty captions array on
captionsFromResponse_KeepEmpty(response) ==
    LET parsed == UnmarshalCaptionResponse(response) IN
    IF ~parsed.ok
    THEN [Summarize |-> <<"Failed to parse LLM response">>,
          Captions |-> <<Caption(response, 0)>>]
    ELSE parsed.val

\* the parse of the model's answer and its two fallbacks
captionsFromResponse(response) ==
    LET parsed == UnmarshalCaptionResponse(response) IN
    IF ~parsed.ok
    THEN [Summarize |-> <<"Failed to parse LLM response">>,
          Captions |-> <<Caption(response, 0)>>]
    ELSE IF Len(parsed.val.Captions) = 0
    THEN [Summarize |-> parsed.val.Summarize,
          Captions |-> <<Caption(response, 0)>>]
    ELSE parsed.val

\* GenerateTitleFromContent past its empty-content guard
generateFromLLM(content, config, env) ==
    LET sent == sendStructuredChatRequest(ModelTitleGeneration,
                                          TitlePrompt(content, config), env)
    IN  IF sent.panic THEN Crash(NoCaptions, sent, sent.req)
        ELSE IF sent.err # Nil
        THEN Result(NoCaptions, Errorf("failed to generate title", sent.err),
                    sent, sent.req)
        ELSE Result(captionsFromResponse(sent.val), Nil, sent, sent.req)

\* GenerateTitleFromContent without its empty-content guard
GenerateTitleFromContent_NoGuard(content, config, env) ==
    generateFromLLM(content, config, env)

GenerateTitleFromContent(content, config, env) ==
    IF content = Nil
    THEN Result(EmptyContentResponse, Nil, NoHttp, NoRequest)
    ELSE generateFromLLM(content, config, env)

IsJpeg(imageData) ==
    ~(Len(imageData) < 2 \/ (imageData[1] # "FF" \/ imageData[2] # "D8"))

\* MakeOcr, had it looked at the first byte only
MakeOcr_FirstByteOnly(imageData, env) ==
    IF Len(imageData) < 1 \/ imageData[1] # "FF"
    THEN Result(Nil, <<"invalid image data: not a valid JPEG">>, NoHttp,
                NoRequest)
    ELSE
    LET sent == sendOCRRequest(ModelOCR, PromptOCR, imageData, env)
    IN  IF sent.panic THEN Crash(Nil, sent, sent.req)
        ELSE IF sent.err # Nil
        THEN Result(Nil, Errorf("failed to extract content", sent.err), sent,
                    sent.req)
        ELSE Result(sent.val, Nil, sent, sent.req)

MakeOcr(imageData, env) ==
    IF ~IsJpeg(imageData)
    THEN Result(Nil, <<"invalid image data: not a valid JPEG">>, NoHttp,
                NoRequest)
    ELSE
    LET sent == sendOCRRequest(ModelOCR, PromptOCR, imageData, env)
    IN  IF sent.panic THEN Crash(Nil, sent, sent.req)
        ELSE IF sent.err # Nil
        THEN Result(Nil, Errorf("failed to extract content", sent.err), sent,
                    sent.req)
        ELSE Result(sent.val, Nil, sent, sent.req)

\* the list of found ids, had only its first id been printed
Join_FirstOnly(ids) == IF ids = << >> THEN << >> ELSE Head(ids)

RECURSIVE Join(_)
Join(ids) == IF ids = << >> THEN << >> ELSE Head(ids) \o Join(Tail(ids))

Has(ids, id) == \E i \in 1..Len(ids) : ids[i] = id

CheckConnection(env) ==
    LET req == [model |-> Nil, prompt |-> <<"GET /v1/models">>,
                image |-> Nil, schema |-> FALSE]
        r == doRequestWithRetry(env.outs)
        ids == env.body.data
    IN  IF env.prep = "request"
        THEN Result(Nil, <<"failed to create request", "invalid URL">>,
                    NoHttp, NoRequest)
        ELSE IF r.panic THEN Crash(Nil, r, req)
        ELSE IF r.err # Nil THEN Result(Nil, r.err, r, req)
        ELSE IF r.resp.status # 200
        THEN Result(Nil,
                    <<"unexpected status code: " \o ToString(r.resp.status)>>,
                    r, req)
        ELSE IF env.body.readErr
        THEN Result(Nil, <<"failed to read response", "unexpected EOF">>, r,
                    req)
        ELSE IF ~env.body.json
        THEN Result(Nil,
                    <<"failed to parse models response", "invalid character">>,
                    r, req)
        ELSE IF ~Has(ids, ModelTitleGeneration)
        THEN Result(Nil,
                    <<"title generation model '">> \o ModelTitleGeneration
                    \o <<"' not available, found ">> \o Join(ids), r, req)
        ELSE IF ~Has(ids, ModelOCR)
        THEN Result(Nil,
                    <<"content extraction model '">> \o ModelOCR
                    \o <<"' not available, found ">> \o Join(ids), r, req)
        ELSE Result(Nil, Nil, r, req)

-----------------------------------------------------------------------------
(* internal/paperless.go: FilterDocuments.  Text and patterns are sequences *)
(* of characters; a pattern is made of literals, "^", "$", ".*" and "("     *)

FilterTypeTitle == "title"
FilterTypeContent == "content"

\* regexp.Compile: nil, or the parse error of a group that is never closed
regexpCompile(pattern) ==
    IF \E i \in 1..Len(pattern) :
         /\ pattern[i] = "("
         /\ \A j \in (i + 1)..Len(pattern) : pattern[j] # ")"
    THEN <<"error parsing regexp: missing closing ): ">> \o pattern
    ELSE Nil

\* the compiled pattern against the text from its first character on
RECURSIVE matchHere(_, _)
matchHere(re, text) ==
    IF re = << >> THEN TRUE
    ELSE IF Head(re) = "$" THEN Len(re) = 1 /\ text = << >>
    ELSE IF Head(re) = ".*"
    THEN \E k \in 0..Len(text) :
           matchHere(Tail(re), SubSeq(text, k + 1, Len(text)))
    ELSE /\ text # << >>
         /\ Head(re) = Head(text)
         /\ matchHere(Tail(re), Tail(text))

\* regex.MatchString: the pattern matches somewhere in the text
MatchString(re, text) ==
    IF re # << >> /\ Head(re) = "^"
    THEN matchHere(Tail(re), text)
    ELSE \E k \in 0..Len(text) : matchHere(re, SubSeq(text, k + 1, Len(text)))

\* the pattern loop, had it given up after one pattern
matchPatterns_FirstOnly(patterns, j, targetText) ==
    IF j > Len(patterns) THEN [matched |-> FALSE, err |-> Nil]
    ELSE IF regexpCompile(patterns[j]) # Nil
    THEN [matched |-> FALSE,
          err |-> <<"invalid regex pattern '">> \o patterns[j] \o <<"': ">>
                  \o regexpCompile(patterns[j])]
    ELSE [matched |-> MatchString(patterns[j], targetText), err |-> Nil]

\* the inner loop of FilterDocuments over the patterns, from pattern j on
RECURSIVE matchPatterns(_, _, _)
matchPatterns(patterns, j, targetText) ==
    IF j > Len(patterns) THEN [matched |-> FALSE, err |-> Nil]
    ELSE IF regexpCompile(patterns[j]) # Nil
    THEN [matched |-> FALSE,
          err |-> <<"invalid regex pattern '">> \o patterns[j] \o <<"': ">>
                  \o regexpCompile(patterns[j])]
    ELSE IF MatchString(patterns[j], targetText)
    THEN [matched |-> TRUE, err |-> Nil]
    ELSE matchPatterns(patterns, j + 1, targetText)

\* the outer loop of FilterDocuments over the documents, from document i on
RECURSIVE filterLoop(_, _, _, _, _)
filterLoop(documents, i, filtered, patterns, filterType) ==
    IF i > Len(documents) THEN [val |-> filtered, err |-> Nil]
    ELSE LET doc == documents[i]
             targetText == IF filterType = FilterTypeTitle THEN doc.Title
                           ELSE doc.Content
             m == matchPatterns(patterns, 1, targetText)
         IN  IF m.err # Nil THEN [val |-> Nil, err |-> m.err]
             ELSE filterLoop(documents, i + 1,
                             IF m.matched THEN Append(filtered, doc)
                             ELSE filtered,
                             patterns, filterType)

FilterDocuments(documents, filterType, filters) ==
    IF filterType = FilterTypeTitle
    THEN filterLoop(documents, 1, << >>, filters.Title, filterType)
    ELSE IF filterType = FilterTypeContent
    THEN filterLoop(documents, 1, << >>, filters.Content, filterType)
    ELSE [val |-> Nil, err |-> <<"unknown filter type: ", filterType>>]

-----------------------------------------------------------------------------
(* config/config.go: Validate.  A configuration is the record of the fields *)
(* Validate reads; an unset field is the empty string                       *)

FullConfig(title, content) ==
    [BaseURL |-> <<"http://paperless:8000">>,
     Token |-> <<"secret-token">>,
     LLMBaseURL |-> <<"http://localhost:8080">>,
     ModelsTitleGeneration |-> ModelTitleGeneration,
     ModelsOCR |-> ModelOCR,
     PromptsTitleGeneration |-> PromptTitleGeneration,
     PromptsOCR |-> PromptOCR,
     Filters |-> [Title |-> title, Content |-> content]]

RequiredFields ==
    {"BaseURL", "Token", "LLMBaseURL", "ModelsTitleGeneration", "ModelsOCR"}

PromptFields == {"PromptsTitleGeneration", "PromptsOCR"}

\* validateImageMagick: nil when the tool is found
validateImageMagick(found) ==
    IF found THEN Nil
    ELSE <<"ImageMagick not found in system PATH. Please install ImageMagick">>

\* one of the two pattern loops of Validate, from pattern j on
RECURSIVE validatePatterns(_, _, _)
validatePatterns(patterns, j, kind) ==
    IF j > Len(patterns) THEN Nil
    ELSE IF regexpCompile(patterns[j]) # Nil
    THEN <<"invalid ", kind, " filter pattern '">> \o patterns[j]
         \o <<"': ">> \o regexpCompile(patterns[j])
    ELSE validatePatterns(patterns, j + 1, kind)

\* Validate, had it compiled the title patterns only
Validate_TitlePatternsOnly(c, found) ==
    IF c.BaseURL = Nil THEN <<"paperless.api.base_url is required">>
    ELSE IF c.Token = Nil THEN <<"paperless.api.token is required">>
    ELSE IF c.LLMBaseURL = Nil THEN <<"llm.api.base_url is required">>
    ELSE IF c.ModelsTitleGeneration = Nil
    THEN <<"llm.models.title_generation is required">>
    ELSE IF c.ModelsOCR = Nil THEN <<"llm.models.ocr is required">>
    ELSE IF validatePatterns(c.Filters.Title, 1, "title") # Nil
    THEN validatePatterns(c.Filters.Title, 1, "title")
    ELSE IF c.PromptsTitleGeneration = Nil
    THEN <<"llm.prompts.title_generation is required">>
    ELSE IF c.PromptsOCR = Nil THEN <<"llm.prompts.ocr is required">>
    ELSE IF validateImageMagick(found) # Nil
    THEN Errorf("imagemagick validation failed", validateImageMagick(found))
    ELSE Nil

Validate(c, found) ==
    IF c.BaseURL = Nil THEN <<"paperless.api.base_url is required">>
    ELSE IF c.Token = Nil THEN <<"paperless.api.token is required">>
    ELSE IF c.LLMBaseURL = Nil THEN <<"llm.api.base_url is required">>
    ELSE IF c.ModelsTitleGeneration = Nil
    THEN <<"llm.models.title_generation is required">>
    ELSE IF c.ModelsOCR = Nil THEN <<"llm.models.ocr is required">>
    ELSE IF validatePatterns(c.Filters.Title, 1, "title") # Nil
    THEN validatePatterns(c.Filters.Title, 1, "title")
    ELSE IF validatePatterns(c.Filters.Content, 1, "content") # Nil
    THEN validatePatterns(c.Filters.Content, 1, "content")
    ELSE IF c.PromptsTitleGeneration = Nil
    THEN <<"llm.prompts.title_generation is required">>
    ELSE IF c.PromptsOCR = Nil THEN <<"llm.prompts.ocr is required">>
    ELSE IF validateImageMagick(found) # Nil
    THEN Errorf("imagemagick validation failed", validateImageMagick(found))
    ELSE Nil

-----------------------------------------------------------------------------
(* processor: sorting and the prompts *)

Undefined == Nil
skipDocumentOption == <<"Skip this document">>
makeOcrAndTryAgainOption == <<"Make OCR and try again">>
customTitleOption == <<"Enter custom title">>

Swap(s, i, j) == [s EXCEPT ![i] = s[j], ![j] = s[i]]

\* sort.Slice with less(i, j) = Score[i] > Score[j]; on the short slices of
\* the model the library runs its insertion sort
RECURSIVE sink(_, _)
sink(s, j) ==
    IF j > 1 /\ s[j].Score > s[j - 1].Score
    THEN sink(Swap(s, j, j - 1), j - 1)
    ELSE s

RECURSIVE insertionSort(_, _)
insertionSort(s, i) ==
    IF i > Len(s) THEN s ELSE insertionSort(sink(s, i), i + 1)

SortSlice(s) == insertionSort(s, 2)

\* sort.Slice, had it left the slice as it found it
SortOutcomes_Unsorted(s) == {s}

\* what sort.Slice can leave behind.  Up to insertionSortThreshold elements
\* it is the insertion sort above; beyond that the library partitions the
\* slice and promises descending scores only, so captions with equal scores
\* may come out in either order
SortOutcomes(s) ==
    IF Len(s) <= insertionSortThreshold THEN {SortSlice(s)}
    ELSE {SortSlice(s)}
         \cup {Swap(SortSlice(s), i, i + 1) :
                 i \in {k \in 1..(Len(s) - 1) :
                          SortSlice(s)[k].Score = SortSlice(s)[k + 1].Score}}

RECURSIVE TrimLeft(_)
TrimLeft(s) ==
    IF s # << >> /\ Head(s) = " " THEN TrimLeft(Tail(s)) ELSE s

RECURSIVE TrimRight(_)
TrimRight(s) ==
    IF s # << >> /\ s[Len(s)] = " "
    THEN TrimRight(SubSeq(s, 1, Len(s) - 1))
    ELSE s

\* strings.TrimSpace, had it returned its argument
TrimSpace_Untrimmed(s) == s

TrimSpace(s) == TrimRight(TrimLeft(s))

\* fmt.Sprintf("%d. %s (Score: %.2f)", i+1, caption.Caption, caption.Score)
Display(i, c) ==
    <<ToString(i), ". ">> \o c.Caption \o <<" (Score: ", ToString(c.Score), ")">>

\* what the operator and the terminal can do at the title prompt
CustomTexts == {Nil, <<" ">>, <<" ", "My title", " ">>}

Answers(captions) ==
    {[kind |-> k, option |-> 0, textErr |-> FALSE, text |-> Nil] :
        k \in {"error", "empty"}}
    \cup {[kind |-> "pick", option |-> i, textErr |-> FALSE, text |-> Nil] :
            i \in (1..(Len(captions) + 3)) \ {Len(captions) + 1}}
    \cup {[kind |-> "pick", option |-> Len(captions) + 1, textErr |-> TRUE,
           text |-> Nil]}
    \cup {[kind |-> "pick", option |-> Len(captions) + 1, textErr |-> FALSE,
           text |-> t] : t \in CustomTexts}

\* the kind of option an answer picks from the list built for caps
Slot(caps, answer) ==
    IF answer.kind # "pick" THEN "none"
    ELSE IF answer.option <= Len(caps) THEN "caption"
    ELSE IF answer.option = Len(caps) + 1 THEN "custom"
    ELSE IF answer.option = Len(caps) + 2 THEN "skip"
    ELSE "redo"

\* an answer as the history keeps it: the kind of option picked and, for a
\* caption, the text the option stood for
Given(caps, answer) ==
    [kind |-> answer.kind, option |-> Slot(caps, answer),
     textErr |-> answer.textErr, text |-> answer.text,
     caption |-> IF Slot(caps, answer) = "caption"
                 THEN caps[answer.option].Caption ELSE Nil]

NotAsked ==
    [kind |-> "none", option |-> "none", textErr |-> FALSE, text |-> Nil,
     caption |-> Nil]

Selection(option, title, err) ==
    [option |-> option, title |-> title, err |-> err]

\* the options of the select prompt: the captions in the order the sort left
\* them, then the three fixed choices
titleOptions(caps) ==
    [i \in 1..Len(caps) |-> Display(i, caps[i])]
    \o <<customTitleOption, skipDocumentOption, makeOcrAndTryAgainOption>>

\* sorted is the order sort.Slice left captionResp.Captions in
askUserForTitleSelection(captionResp, sorted, answer) ==
    LET caps == sorted
        shown == [i \in 1..Len(caps) |-> Display(i, caps[i])]
        options == titleOptions(caps)
        selectedOption ==
            IF answer.kind = "pick" THEN options[answer.option] ELSE Nil
        userOption ==
            CASE selectedOption = skipDocumentOption -> skipDocumentOption
              [] selectedOption = makeOcrAndTryAgainOption ->
                   makeOcrAndTryAgainOption
              [] selectedOption = customTitleOption -> customTitleOption
              [] OTHER -> Undefined
        \* mapTitleToOptions: a later caption overwrites an equal key
        keys == {i \in 1..Len(caps) : shown[i] = selectedOption}
        last == CHOOSE i \in keys : \A j \in keys : j <= i
    IN  IF answer.kind = "error"
        THEN Selection(Undefined, Nil, <<"failed to get user selection">>)
        ELSE IF selectedOption = Nil
        THEN Selection(Undefined, Nil, <<"no valid option selected">>)
        ELSE IF userOption = customTitleOption
        THEN IF answer.textErr
             THEN Selection(userOption, Nil,
                            <<"failed to get custom title input">>)
             ELSE IF TrimSpace(answer.text) = Nil
             THEN Selection(userOption, Nil, Nil)
             ELSE Selection(userOption, TrimSpace(answer.text), Nil)
        ELSE IF userOption # Undefined
        THEN Selection(userOption, Nil, Nil)
        ELSE IF keys = {}
        THEN Selection(Undefined, Nil,
                       <<"selected option does not correspond to any title">>)
        ELSE IF caps[last].Caption = Nil
        THEN Selection(Undefined, Nil, <<"no title found for selected option">>)
        ELSE Selection(userOption, caps[last].Caption, Nil)

\* askUserForSetContent: TRUE only when the prompt worked and was confirmed
ConfirmAnswers == {"yes", "no", "error"}

\* askUserForSetContent, had it taken every answer for a yes
askUserForSetContent_Always(answer) == TRUE

askUserForSetContent(answer) == answer = "yes"

-----------------------------------------------------------------------------
(* The gateway, the filter and the title prompt on their own: every call on *)
(* every input and in every world                                           *)

\* documents and patterns handed to FilterDocuments
TitleScn == <<"S", "C", "N", "_", "0", "0", "1">>
TitleInvoice == <<"i", "n", "v", "o", "i", "c", "e">>
TitleBrn == <<"B", "R", "N", "-", "r", "e", "p", "o", "r", "t">>

FilterDocs ==
    {[ID |-> 1, Title |-> TitleScn, Content |-> <<"B", "R", "N">>],
     [ID |-> 2, Title |-> TitleInvoice, Content |-> Nil],
     [ID |-> 3, Title |-> TitleBrn, Content |-> <<"S", "C", "N", "_">>]}

PatternScn == <<"^", "S", "C", "N", "_", ".*", "$">>
PatternBrn == <<".*", "B", "R", "N", ".*", "$">>
PatternUnclosed == <<"(", "S", "C", "N">>

Patterns == {PatternScn, PatternBrn, PatternUnclosed}

SeqsUpTo(S, n) == UNION {[1..k -> S] : k \in 0..n}

\* the configurations handed to Validate: complete, or with one field unset
ValidateConfigs ==
    UNION {{FullConfig(t, k)}
           \cup {[FullConfig(t, k) EXCEPT ![f] = Nil] :
                   f \in RequiredFields \cup PromptFields} :
             t \in SeqsUpTo(Patterns, MaxPatterns),
             k \in SeqsUpTo(Patterns, MaxPatterns)}

Contents == {Nil, <<"a">>, <<"a", "b", "c">>, <<"a", "C3", "A9">>}

Images ==
    {Nil, <<"FF">>, <<"FF", "D8">>, <<"FF", "D8", "00">>, <<"FF", "00">>,
     <<"00", "D8">>, <<"89", "50", "4E">>}

NoCall == [op |-> "none", done |-> FALSE]

NoStats ==
    [total |-> 0, processed |-> 0, success |-> 0, errors |-> 0, skipped |-> 0]

\* an answer at the title prompt, and the slot of the option list it picked
NoAnswer == [kind |-> "none", option |-> 0, textErr |-> FALSE, text |-> Nil]

\* the locals of an iteration: the captions as they stand, the answer they
\* came from, the OCR text, the bytes in hand, the title chosen, and the
\* options and answer of the prompt that chose it
NoWork ==
    [captions |-> NoCaptions, generated |-> NoCaptions, text |-> Nil,
     data |-> Nil, title |-> Nil, shown |-> << >>, answer |-> NoAnswer]

\* the history of an iteration: the steps taken in order, the step that
\* failed, the PATCH requests sent, the redo-OCR rounds begun, and the last
\* answer at the title prompt with the kind of option it picked
Fresh(id) ==
    [doc |-> id, steps |-> << >>, fail |-> "none", patches |-> << >>,
     redos |-> 0, last |-> NotAsked]

Idle ==
    /\ cfg = [truncate |-> 0]
    /\ mode = "none"
    /\ autonomous = FALSE
    /\ docs = << >>
    /\ idx = 0
    /\ pc = "idle"
    /\ stats = NoStats
    /\ work = NoWork
    /\ cur = Fresh(0)
    /\ iterStart = NoStats
    /\ order = << >>
    /\ returned = "none"

\* the caption responses the title prompt can be handed
PromptResponses ==
    {captionsFromResponse(t) : t \in TitleTexts \cup {TextMany}}
    \cup {EmptyContentResponse}

PendingPrompts ==
    UNION {UNION {{[op |-> "askUserForTitleSelection", done |-> FALSE,
                    captionResp |-> r, sorted |-> c, answer |-> a] :
                     a \in Answers(c)} :
                   c \in SortOutcomes(r.Captions)} :
             r \in PromptResponses}

\* the calls the gateway can be asked to make, with the world each meets
PendingCalls ==
    [op : {"doRequestWithRetry"}, done : {FALSE},
     outs : [1..maxRetries -> HttpOutcomes]]
    \cup [op : {"GenerateTitleFromContent"}, done : {FALSE},
          input : Contents, config : Configs, prep : PrepOutcomes,
          outs : [1..maxRetries -> HttpOutcomes], body : TitleBodies]
    \cup [op : {"MakeOcr"}, done : {FALSE}, input : Images,
          prep : PrepOutcomes, outs : [1..maxRetries -> HttpOutcomes],
          body : OcrBodies \cup {BodyChoices(<<TextTwo>>)}]
    \cup [op : {"CheckConnection"}, done : {FALSE}, prep : {"ok", "request"},
          outs : [1..maxRetries -> HttpOutcomes], body : ModelsBodies]
    \cup [op : {"FilterDocuments"}, done : {FALSE},
          documents : SeqsUpTo(FilterDocs, MaxFilterDocs),
          filterType : {FilterTypeTitle, FilterTypeContent, "tag"},
          filters : [Title : SeqsUpTo(Patterns, MaxPatterns),
                     Content : SeqsUpTo(Patterns, MaxPatterns)]]
    \cup [op : {"Truncate"}, done : {FALSE}, input : Contents,
          config : Configs]
    \cup [op : {"Validate"}, done : {FALSE}, config : ValidateConfigs,
          found : BOOLEAN]
    \cup PendingPrompts

EnvOf(c) == [prep |-> c.prep, outs |-> c.outs, body |-> c.body]

Done(c, out) == [c EXCEPT !.done = TRUE] @@ [out |-> out]

InitGateway == call \in PendingCalls /\ Idle

CallDoRequestWithRetry ==
    /\ call.op = "doRequestWithRetry" /\ ~call.done
    /\ call' = Done(call, doRequestWithRetry(call.outs))
    /\ UNCHANGED pipelineVars

CallGenerateTitleFromContent ==
    /\ call.op = "GenerateTitleFromContent" /\ ~call.done
    /\ call' = Done(call, GenerateTitleFromContent(call.input, call.config,
                                                   EnvOf(call)))
    /\ UNCHANGED pipelineVars

CallMakeOcr ==
    /\ call.op = "MakeOcr" /\ ~call.done
    /\ call' = Done(call, MakeOcr(call.input, EnvOf(call)))
    /\ UNCHANGED pipelineVars

CallCheckConnection ==
    /\ call.op = "CheckConnection" /\ ~call.done
    /\ call' = Done(call, CheckConnection(EnvOf(call)))
    /\ UNCHANGED pipelineVars

CallFilterDocuments ==
    /\ call.op = "FilterDocuments" /\ ~call.done
    /\ call' = Done(call, FilterDocuments(call.documents, call.filterType,
                                          call.filters))
    /\ UNCHANGED pipelineVars

CallAskUserForTitleSelection ==
    /\ call.op = "askUserForTitleSelection" /\ ~call.done
    /\ call' = Done(call,
                    [sel |-> askUserForTitleSelection(call.captionResp,
                                                      call.sorted, call.answer),
                     options |-> titleOptions(call.sorted)])
    /\ UNCHANGED pipelineVars

\* the truncation at the head of GenerateTitleFromContent, on its own
CallTruncate ==
    /\ call.op = "Truncate" /\ ~call.done
    /\ call' = Done(call, [content |-> Truncate(call.input,
                                                 call.config.truncate)])
    /\ UNCHANGED pipelineVars

CallValidate ==
    /\ call.op = "Validate" /\ ~call.done
    /\ call' = Done(call, [err |-> Validate(call.config, call.found)])
    /\ UNCHANGED pipelineVars

NextGateway ==
    \/ CallDoRequestWithRetry
    \/ CallGenerateTitleFromContent
    \/ CallMakeOcr
    \/ CallCheckConnection
    \/ CallFilterDocuments
    \/ CallAskUserForTitleSelection
    \/ CallTruncate
    \/ CallValidate

SpecGateway == InitGateway /\ [][NextGateway]_vars

-----------------------------------------------------------------------------
(* internal/paperless.go and processor/headless_actions.go: the store *)

StoreOutcomes == {Http200, Http500, TransportErr}

PdfBytes == <<"%PDF">>
JpegBytes == <<"FF", "D8", "00">>

\* RenderPageToJpg: ImageMagick fails, or writes the page as a JPEG
RenderOutcomes == {[val |-> Nil, err |-> <<"ImageMagick failed">>],
                   [val |-> JpegBytes, err |-> Nil]}

DownloadDocument(documentID, o) ==
    IF o.err
    THEN [val |-> Nil, err |-> Errorf("failed to download document", o.msg)]
    ELSE IF o.status # 200
    THEN [val |-> Nil,
          err |-> <<"unexpected status code: " \o ToString(o.status)>>]
    ELSE [val |-> PdfBytes, err |-> Nil]

UpdateDocument(documentID, updates, o) ==
    IF o.err THEN Errorf("failed to update document", o.msg)
    ELSE IF o.status # 200
    THEN <<"unexpected status code: " \o ToString(o.status), ", response: ">>
    ELSE Nil

\* Both setters yield their error and the PATCH requests they sent.
\* SetContentOfPaperlessDocument, had it sent whatever it was given
SetContentOfPaperlessDocument_Unchecked(documentID, content, o) ==
    LET updates == [content |-> content]
        err == UpdateDocument(documentID, updates, o)
        patch == [id |-> documentID, updates |-> updates, ok |-> err = Nil]
    IN  IF err # Nil
        THEN [err |-> err \o <<"failed to set document content">>,
              sent |-> <<patch>>]
        ELSE [err |-> Nil, sent |-> <<patch>>]

SetContentOfPaperlessDocument(documentID, content, o) ==
    IF documentID <= 0
    THEN [err |-> <<"invalid document ID">>, sent |-> << >>]
    ELSE IF content = Nil
    THEN [err |-> <<"content cannot be empty">>, sent |-> << >>]
    ELSE LET updates == [content |-> content]
             err == UpdateDocument(documentID, updates, o)
             patch == [id |-> documentID, updates |-> updates,
                       ok |-> err = Nil]
         IN  IF err # Nil
             THEN [err |-> err \o <<"failed to set document content">>,
                   sent |-> <<patch>>]
             ELSE [err |-> Nil, sent |-> <<patch>>]

\* SetTitleOfPaperlessDocument, had it sent the whole document
SetTitleOfPaperlessDocument_AllFields(documentID, title, o) ==
    IF documentID <= 0
    THEN [err |-> <<"invalid document ID">>, sent |-> << >>]
    ELSE IF title = Nil
    THEN [err |-> <<"title cannot be empty">>, sent |-> << >>]
    ELSE LET updates == [title |-> title, content |-> Nil]
             err == UpdateDocument(documentID, updates, o)
             patch == [id |-> documentID, updates |-> updates,
                       ok |-> err = Nil]
         IN  IF err # Nil
             THEN [err |-> err \o <<"failed to set document title">>,
                   sent |-> <<patch>>]
             ELSE [err |-> Nil, sent |-> <<patch>>]

SetTitleOfPaperlessDocument(documentID, title, o) ==
    IF documentID <= 0
    THEN [err |-> <<"invalid document ID">>, sent |-> << >>]
    ELSE IF title = Nil
    THEN [err |-> <<"title cannot be empty">>, sent |-> << >>]
    ELSE LET updates == [title |-> title]
             err == UpdateDocument(documentID, updates, o)
             patch == [id |-> documentID, updates |-> updates,
                       ok |-> err = Nil]
         IN  IF err # Nil
             THEN [err |-> err \o <<"failed to set document title">>,
                   sent |-> <<patch>>]
             ELSE [err |-> Nil, sent |-> <<patch>>]

-----------------------------------------------------------------------------
(* processor: the statistics *)

\* the three ways an iteration of either pipeline ends
\* the error branch, had it left processed alone
countError_NoProcessed(s) == [s EXCEPT !.errors = @ + 1]

countError(s) == [s EXCEPT !.errors = @ + 1, !.processed = @ + 1]

\* the skip branch, had it left processed alone
countSkipped_NoProcessed(s) == [s EXCEPT !.skipped = @ + 1]

countSkipped(s) == [s EXCEPT !.skipped = @ + 1, !.processed = @ + 1]

\* the commit branch, had it counted a failed Patch as a success
countCommit_IgnoresError(s, err) ==
    [s EXCEPT !.success = @ + 1, !.processed = @ + 1]

countCommit(s, err) ==
    IF err # Nil
    THEN [s EXCEPT !.errors = @ + 1, !.processed = @ + 1]
    ELSE [s EXCEPT !.success = @ + 1, !.processed = @ + 1]

-----------------------------------------------------------------------------
(* processor: the two pipelines, one action per blocking step *)

DocContents == {Nil, <<"a", "b", "c">>}

Document(id, content) ==
    [ID |-> id, Title |-> <<"S", "C", "N", "_", ToString(id)>>,
     Content |-> content]

Batches ==
    UNION {{[i \in 1..n |-> Document(i, cs[i])] : cs \in [1..n -> DocContents]} :
             n \in 1..MaxDocs}

\* the worlds a pipeline's gateway call is run in: one for every answer the
\* endpoint can give, and one for every way the call can fail
Always(o) == [k \in 1..maxRetries |-> o]

Worlds(bodies) ==
    {[prep |-> "ok", outs |-> Always(Http200), body |-> b] : b \in bodies}
    \cup {[prep |-> "ok", outs |-> Always(o), body |-> BodyGarbage] :
            o \in {Http500, TransportErr, RedirectErr}}
    \cup {[prep |-> "debug", outs |-> Always(Http200), body |-> BodyGarbage]}

\* a run reads one configuration; the pipelines see it only through the
\* gateway, whose calls SpecGateway runs under every configuration
Init ==
    /\ call = NoCall
    /\ cfg \in {c \in Configs : c.truncate > 0}
    /\ \E m \in {<<"title", FALSE>>, <<"title", TRUE>>, <<"ocr", FALSE>>} :
         mode = m[1] /\ autonomous = m[2]
    /\ docs \in Batches
    /\ idx = 0
    /\ pc = "start"
    /\ stats = NoStats
    /\ work = NoWork
    /\ cur = Fresh(0)
    /\ iterStart = NoStats
    /\ order = << >>
    /\ returned = "none"

Log(c, step) == [c EXCEPT !.steps = Append(@, step)]

Failing(c, step) == [Log(c, step) EXCEPT !.fail = step]

\* how a step hands over: to the next step, to the next document, or to
\* the Go runtime
Goto(next, w, c) ==
    /\ pc' = next
    /\ work' = w
    /\ cur' = c
    /\ UNCHANGED <<stats, idx>>

NextDocument(s, c) ==
    /\ stats' = s
    /\ idx' = idx + 1
    /\ pc' = "loop"
    /\ work' = NoWork
    /\ cur' = c

Panic(c) ==
    /\ pc' = "panic"
    /\ cur' = c
    /\ UNCHANGED <<stats, idx, work>>

\* the ProgressStats literal at the head of both pipeline functions
StartPipeline ==
    /\ pc = "start"
    /\ stats' = [total |-> Len(docs), processed |-> 0, success |-> 0,
                 errors |-> 0, skipped |-> 0]
    /\ idx' = 1
    /\ pc' = "loop"
    /\ UNCHANGED <<call, cfg, mode, autonomous, docs, work, cur, iterStart,
                   order, returned>>

\* processDocumentsForTitleGeneration: the loop body up to the decision
TitleIteration ==
    /\ pc = "loop" /\ mode = "title" /\ idx <= Len(docs)
    /\ \E env \in Worlds(TitleBodies) :
         LET doc == docs[idx]
             r == GenerateTitleFromContent(doc.Content, cfg, env)
             begun == Log(Fresh(doc.ID), "generate")
         IN  \E caps \in SortOutcomes(r.val.Captions) :
             LET sorted == [r.val EXCEPT !.Captions = caps] IN
             /\ order' = Append(order, doc.ID)
             /\ iterStart' = stats
             /\ IF r.panic THEN Panic(Failing(Fresh(doc.ID), "generate"))
                ELSE IF r.err # Nil
                THEN NextDocument(countError(stats),
                                  Failing(Fresh(doc.ID), "generate"))
                ELSE IF Len(r.val.Captions) = 0
                THEN NextDocument(countError(stats),
                                  Failing(Fresh(doc.ID), "generate"))
                ELSE IF ~autonomous
                THEN Goto("ask",
                          [NoWork EXCEPT !.captions = sorted,
                                         !.generated = r.val],
                          begun)
                ELSE Goto("commit",
                          [NoWork EXCEPT
                             !.captions = sorted,
                             !.generated = r.val,
                             !.title = sorted.Captions[1].Caption
                                       \o <<" (auto-generated)">>],
                          begun)
    /\ UNCHANGED <<call, cfg, mode, autonomous, docs, returned>>

\* the name under which a pass through the title prompt enters the history
ChoiceOf(sel) ==
    IF sel.err # Nil THEN "ask:error"
    ELSE IF sel.option = customTitleOption THEN "ask:custom"
    ELSE IF sel.option = skipDocumentOption THEN "ask:skip"
    ELSE IF sel.option = makeOcrAndTryAgainOption THEN "ask:redo"
    ELSE "ask:caption"

\* SetTitleAction.Execute's callback from its label AskForTitleSelection
AskTitle ==
    /\ pc = "ask"
    /\ \E sorted \in SortOutcomes(work.captions.Captions) :
       \E answer \in Answers(sorted) :
         LET sel == askUserForTitleSelection(work.captions, sorted, answer)
             asked == [Log(cur, ChoiceOf(sel)) EXCEPT
                         !.last = Given(sorted, answer)]
         IN  IF sel.err # Nil
             THEN NextDocument(countSkipped(stats), asked)
             ELSE IF sel.title # Nil
             THEN Goto("commit",
                       [work EXCEPT !.title = sel.title, !.shown = sorted,
                                    !.answer = answer],
                       asked)
             ELSE IF sel.option = skipDocumentOption
             THEN NextDocument(countSkipped(stats), asked)
             ELSE IF sel.option = makeOcrAndTryAgainOption
             THEN /\ cur.redos < MaxRedo
                  /\ Goto("redo_download", work,
                          [asked EXCEPT !.redos = @ + 1])
             ELSE NextDocument(countSkipped(stats), asked)
    /\ UNCHANGED <<call, cfg, mode, autonomous, docs, iterStart, order,
                   returned>>

\* OcrPaperlessDocument, step by step; a failure makes the callback return
\* ("", false)
RedoDownload ==
    /\ pc = "redo_download"
    /\ \E o \in StoreOutcomes :
         LET d == DownloadDocument(docs[idx].ID, o) IN
         IF docs[idx].ID <= 0 \/ d.err # Nil
         THEN NextDocument(countSkipped(stats), Failing(cur, "download"))
         ELSE Goto("redo_render", [work EXCEPT !.data = d.val],
                   Log(cur, "download"))
    /\ UNCHANGED <<call, cfg, mode, autonomous, docs, iterStart, order,
                   returned>>

RedoRender ==
    /\ pc = "redo_render"
    /\ \E j \in RenderOutcomes :
         IF j.err # Nil
         THEN NextDocument(countSkipped(stats), Failing(cur, "render"))
         ELSE Goto("redo_ocr", [work EXCEPT !.data = j.val],
                   Log(cur, "render"))
    /\ UNCHANGED <<call, cfg, mode, autonomous, docs, iterStart, order,
                   returned>>

RedoOcr ==
    /\ pc = "redo_ocr"
    /\ \E env \in Worlds(OcrBodies) :
         LET r == MakeOcr(work.data, env) IN
         IF r.panic THEN Panic(Failing(cur, "ocr"))
         ELSE IF r.err # Nil
         THEN NextDocument(countSkipped(stats), Failing(cur, "ocr"))
         ELSE Goto("redo_generate",
                   [work EXCEPT !.data = Nil, !.text = r.val],
                   Log(cur, "ocr"))
    /\ UNCHANGED <<call, cfg, mode, autonomous, docs, iterStart, order,
                   returned>>

\* the callback, had it kept the captions it first received
RedoGenerate_KeepsCaptions ==
    /\ pc = "redo_generate"
    /\ \E env \in Worlds(TitleBodies) :
         LET r == GenerateTitleFromContent(work.text, cfg, env) IN
         IF r.panic THEN Panic(Failing(cur, "generate"))
         ELSE IF r.err # Nil
         THEN NextDocument(countSkipped(stats), Failing(cur, "generate"))
         ELSE IF Len(r.val.Captions) = 0
         THEN NextDocument(countSkipped(stats), Failing(cur, "generate"))
         ELSE Goto("ask_content", [work EXCEPT !.generated = r.val],
                   Log(cur, "generate"))
    /\ UNCHANGED <<call, cfg, mode, autonomous, docs, iterStart, order,
                   returned>>

RedoGenerate ==
    /\ pc = "redo_generate"
    /\ \E env \in Worlds(TitleBodies) :
         LET r == GenerateTitleFromContent(work.text, cfg, env) IN
         IF r.panic THEN Panic(Failing(cur, "generate"))
         ELSE IF r.err # Nil
         THEN NextDocument(countSkipped(stats), Failing(cur, "generate"))
         ELSE IF Len(r.val.Captions) = 0
         THEN NextDocument(countSkipped(stats), Failing(cur, "generate"))
         ELSE Goto("ask_content",
                   [work EXCEPT !.captions = r.val, !.generated = r.val],
                   Log(cur, "generate"))
    /\ UNCHANGED <<call, cfg, mode, autonomous, docs, iterStart, order,
                   returned>>

\* the callback's offer to store the OCR text, then back to the title prompt
AskSetContent ==
    /\ pc = "ask_content"
    /\ \E answer \in ConfirmAnswers, o \in StoreOutcomes :
         LET p == SetContentOfPaperlessDocument(docs[idx].ID, work.text, o)
             asked == Log(cur, "confirm:" \o answer)
             patched == [asked EXCEPT !.patches = @ \o p.sent]
         IN  IF askUserForSetContent(answer)
             THEN IF p.err # Nil
                  THEN NextDocument(countSkipped(stats),
                                    Failing(patched, "patch:content"))
                  ELSE Goto("ask", [work EXCEPT !.text = Nil],
                            Log(patched, "patch:content"))
             ELSE Goto("ask", [work EXCEPT !.text = Nil], asked)
    /\ UNCHANGED <<call, cfg, mode, autonomous, docs, iterStart, order,
                   returned>>

\* the title commit, had it sent its Patch twice
CommitTitle_Resends ==
    /\ pc = "commit"
    /\ \E o \in StoreOutcomes :
         LET p == SetTitleOfPaperlessDocument(docs[idx].ID, work.title, o)
             patched == [cur EXCEPT !.patches = @ \o p.sent \o p.sent]
         IN  NextDocument(countCommit(stats, p.err),
                          IF p.err # Nil THEN Failing(patched, "patch:title")
                          ELSE Log(patched, "patch:title"))
    /\ UNCHANGED <<call, cfg, mode, autonomous, docs, iterStart, order,
                   returned>>

\* the title commit, had it been sent before the round-trips of the
\* document
CommitTitle_First ==
    /\ pc = "commit"
    /\ \E o \in StoreOutcomes :
         LET p == SetTitleOfPaperlessDocument(docs[idx].ID, work.title, o)
             patched == [cur EXCEPT !.patches = p.sent \o @]
         IN  NextDocument(countCommit(stats, p.err),
                          IF p.err # Nil THEN Failing(patched, "patch:title")
                          ELSE Log(patched, "patch:title"))
    /\ UNCHANGED <<call, cfg, mode, autonomous, docs, iterStart, order,
                   returned>>

\* processDocumentsForTitleGeneration: the commit that ends the loop body
CommitTitle ==
    /\ pc = "commit"
    /\ \E o \in StoreOutcomes :
         LET p == SetTitleOfPaperlessDocument(docs[idx].ID, work.title, o)
             patched == [cur EXCEPT !.patches = @ \o p.sent]
         IN  NextDocument(countCommit(stats, p.err),
                          IF p.err # Nil THEN Failing(patched, "patch:title")
                          ELSE Log(patched, "patch:title"))
    /\ UNCHANGED <<call, cfg, mode, autonomous, docs, iterStart, order,
                   returned>>

\* processOCRGeneration, step by step
OcrIteration ==
    /\ pc = "loop" /\ mode = "ocr" /\ idx <= Len(docs)
    /\ \E o \in StoreOutcomes :
         LET doc == docs[idx]
             d == DownloadDocument(doc.ID, o)
         IN  /\ order' = Append(order, doc.ID)
             /\ iterStart' = stats
             /\ IF d.err # Nil
                THEN NextDocument(countError(stats),
                                  Failing(Fresh(doc.ID), "download"))
                ELSE Goto("ocr_render", [NoWork EXCEPT !.data = d.val],
                          Log(Fresh(doc.ID), "download"))
    /\ UNCHANGED <<call, cfg, mode, autonomous, docs, returned>>

\* the rasterization step, had a failure let the iteration go on
OcrRender_GoesOn ==
    /\ pc = "ocr_render"
    /\ \E j \in RenderOutcomes :
         IF j.err # Nil
         THEN Goto("ocr_extract", work, Failing(cur, "render"))
         ELSE Goto("ocr_extract", [work EXCEPT !.data = j.val],
                   Log(cur, "render"))
    /\ UNCHANGED <<call, cfg, mode, autonomous, docs, iterStart, order,
                   returned>>

OcrRender ==
    /\ pc = "ocr_render"
    /\ \E j \in RenderOutcomes :
         IF j.err # Nil
         THEN NextDocument(countError(stats), Failing(cur, "render"))
         ELSE Goto("ocr_extract", [work EXCEPT !.data = j.val],
                   Log(cur, "render"))
    /\ UNCHANGED <<call, cfg, mode, autonomous, docs, iterStart, order,
                   returned>>

OcrExtract ==
    /\ pc = "ocr_extract"
    /\ \E env \in Worlds(OcrBodies) :
         LET r == MakeOcr(work.data, env) IN
         IF r.panic THEN Panic(Failing(cur, "ocr"))
         ELSE IF r.err # Nil
         THEN NextDocument(countError(stats), Failing(cur, "ocr"))
         ELSE Goto("ocr_generate",
                   [work EXCEPT !.data = Nil, !.text = r.val],
                   Log(cur, "ocr"))
    /\ UNCHANGED <<call, cfg, mode, autonomous, docs, iterStart, order,
                   returned>>

OcrGenerate ==
    /\ pc = "ocr_generate"
    /\ \E env \in Worlds(TitleBodies) :
         LET r == GenerateTitleFromContent(work.text, cfg, env) IN
         \E caps \in SortOutcomes(r.val.Captions) :
         LET sorted == [r.val EXCEPT !.Captions = caps]
         IN  IF r.panic THEN Panic(Failing(cur, "generate"))
             ELSE IF r.err # Nil
             THEN NextDocument(countError(stats), Failing(cur, "generate"))
             ELSE IF Len(r.val.Captions) = 0
             THEN NextDocument(countError(stats), Failing(cur, "generate"))
             ELSE Goto("ocr_confirm",
                       [work EXCEPT !.captions = sorted,
                                    !.generated = r.val,
                                    !.title = sorted.Captions[1].Caption],
                       Log(cur, "generate"))
    /\ UNCHANGED <<call, cfg, mode, autonomous, docs, iterStart, order,
                   returned>>

OcrConfirm ==
    /\ pc = "ocr_confirm"
    /\ \E answer \in ConfirmAnswers :
         IF ~askUserForSetContent(answer)
         THEN NextDocument(countSkipped(stats),
                           Log(cur, "confirm:" \o answer))
         ELSE Goto("ocr_commit", work, Log(cur, "confirm:" \o answer))
    /\ UNCHANGED <<call, cfg, mode, autonomous, docs, iterStart, order,
                   returned>>

\* the commit of the OCR pipeline, had it sent the label shown at the
\* confirmation instead of the extracted text
OcrCommit_SendsLabel ==
    /\ pc = "ocr_commit"
    /\ \E o \in StoreOutcomes :
         LET p == SetContentOfPaperlessDocument(docs[idx].ID, work.title, o)
             patched == [cur EXCEPT !.patches = @ \o p.sent]
         IN  NextDocument(countCommit(stats, p.err),
                          IF p.err # Nil
                          THEN Failing(patched, "patch:content")
                          ELSE Log(patched, "patch:content"))
    /\ UNCHANGED <<call, cfg, mode, autonomous, docs, iterStart, order,
                   returned>>

OcrCommit ==
    /\ pc = "ocr_commit"
    /\ \E o \in StoreOutcomes :
         LET p == SetContentOfPaperlessDocument(docs[idx].ID, work.text, o)
             patched == [cur EXCEPT !.patches = @ \o p.sent]
         IN  NextDocument(countCommit(stats, p.err),
                          IF p.err # Nil
                          THEN Failing(patched, "patch:content")
                          ELSE Log(patched, "patch:content"))
    /\ UNCHANGED <<call, cfg, mode, autonomous, docs, iterStart, order,
                   returned>>

\* renderFinalSummary and return nil, in both pipeline functions
Finish ==
    /\ pc = "loop" /\ idx > Len(docs)
    /\ pc' = "done"
    /\ returned' = "nil"
    /\ UNCHANGED <<call, cfg, mode, autonomous, docs, idx, stats, work, cur,
                   iterStart, order>>

Next ==
    \/ StartPipeline
    \/ TitleIteration
    \/ AskTitle
    \/ RedoDownload
    \/ RedoRender
    \/ RedoOcr
    \/ RedoGenerate
    \/ AskSetContent
    \/ CommitTitle
    \/ OcrIteration
    \/ OcrRender
    \/ OcrExtract
    \/ OcrGenerate
    \/ OcrConfirm
    \/ OcrCommit
    \/ Finish

Spec == Init /\ [][Next]_vars

\* a pipeline whose every call, prompt and store request returns: a step
\* that can be taken is taken
SpecLive == Init /\ [][Next]_vars /\ WF_vars(Next)

-----------------------------------------------------------------------------
(* main.go: App.Run from the command line to the pipeline, one action per  *)
(* numbered step; the record of the run holds the world it meets           *)

PatternEmpty == <<"^", "$">>

\* LoadConfig: the file is read and parsed, or one of the two fails
LoadOutcomes == {"ok", "read", "parse"}

LoadConfig(o) ==
    IF o = "read"
    THEN <<"failed to read config file", "no such file or directory">>
    ELSE IF o = "parse"
    THEN <<"failed to parse config file", "yaml: unmarshal errors">>
    ELSE Nil

RunConfigs ==
    {FullConfig(<<PatternScn>>, <<PatternEmpty>>),
     [FullConfig(<<PatternScn>>, <<PatternEmpty>>) EXCEPT !.Token = Nil],
     FullConfig(<<PatternUnclosed>>, <<PatternEmpty>>)}

\* the answers of GET /v1/models the probe of a run can meet
ProbeWorlds ==
    {[prep |-> "ok", outs |-> Always(Http200), body |-> BodyModels(ids)] :
       ids \in {<<ModelOCR, ModelTitleGeneration>>, <<ModelOCR>>,
                <<ModelTitleGeneration>>}}
    \cup {[prep |-> "ok", outs |-> Always(o), body |-> BodyGarbage] :
            o \in {Http500, TransportErr}}

\* what GET /api/documents/ can list
Listings ==
    {<< >>, <<Document(1, Nil)>>,
     <<Document(1, Nil), Document(2, <<"a", "b", "c">>)>>}

PendingRuns ==
    [op : {"Run"}, done : {FALSE}, AutoSetTitles : BOOLEAN,
     load : LoadOutcomes, config : RunConfigs, found : BOOLEAN,
     store : StoreOutcomes, llm : ProbeWorlds, err : {Nil}]

\* PaperlessClient.CheckConnection
PaperlessCheckConnection(o) ==
    IF o.err THEN Errorf("failed to connect", o.msg)
    ELSE IF o.status # 200
    THEN <<"unexpected status code: " \o ToString(o.status)>>
    ELSE Nil

GetDocuments(o, results) ==
    IF o.err
    THEN [val |-> Nil, err |-> Errorf("failed to get documents", o.msg)]
    ELSE IF o.status # 200
    THEN [val |-> Nil,
          err |-> <<"unexpected status code: " \o ToString(o.status)>>]
    ELSE [val |-> results, err |-> Nil]

InitRun ==
    /\ call \in PendingRuns
    /\ cfg \in {c \in Configs : c.truncate > 0}
    /\ mode = "none"
    /\ autonomous = FALSE
    /\ docs = << >>
    /\ idx = 0
    /\ pc = "run"
    /\ stats = NoStats
    /\ work = NoWork
    /\ cur = Fresh(0)
    /\ iterStart = NoStats
    /\ order = << >>
    /\ returned = "none"

\* how a step of Run hands over: to the next step, or out of Run
Step(next) ==
    /\ pc' = next
    /\ UNCHANGED <<call, cfg, mode, autonomous, docs, idx, stats, work, cur,
                   iterStart, order, returned>>

Return(result, err) ==
    /\ pc' = "exit"
    /\ returned' = result
    /\ call' = [call EXCEPT !.done = TRUE, !.err = err]
    /\ UNCHANGED <<cfg, mode, autonomous, docs, idx, stats, work, cur,
                   iterStart, order>>

\* 1. Load configuration
RunLoadConfig ==
    /\ pc = "run" /\ call.op = "Run"
    /\ IF LoadConfig(call.load) # Nil
       THEN Return("error", Errorf("failed to load configuration",
                                   LoadConfig(call.load)))
       ELSE Step("validate")

\* 2. Check configuration
RunValidate ==
    /\ pc = "validate"
    /\ IF Validate(call.config, call.found) # Nil
       THEN Return("error", Errorf("configuration validation failed",
                                   Validate(call.config, call.found)))
       ELSE Step("probe_store")

\* 3. Check if paperless-ngx is accessible
RunCheckPaperless ==
    /\ pc = "probe_store"
    /\ IF PaperlessCheckConnection(call.store) # Nil
       THEN Return("error", Errorf("paperless-ngx is not accessible",
                                   PaperlessCheckConnection(call.store)))
       ELSE Step("probe_llm")

\* 4. Check if the LLM service is accessible and the models are available
RunCheckLLM ==
    /\ pc = "probe_llm"
    /\ LET r == CheckConnection(call.llm)
       IN  IF r.panic
           THEN /\ pc' = "panic"
                /\ UNCHANGED <<call, cfg, mode, autonomous, docs, idx, stats,
                               work, cur, iterStart, order, returned>>
           ELSE IF r.err # Nil
           THEN Return("error", Errorf("LLM service is not accessible",
                                       r.err))
           ELSE Step("ask_action")

\* 5. askUserForAction
RunAskUserForAction ==
    /\ pc = "ask_action"
    /\ IF call.AutoSetTitles
       THEN /\ mode' = "title" /\ autonomous' = TRUE /\ pc' = "fetch"
            /\ UNCHANGED <<call, cfg, docs, idx, stats, work, cur,
                           iterStart, order, returned>>
       ELSE \E selected \in {"title", "ocr", "Exit", "error"} :
              IF selected = "error"
              THEN Return("error", <<"failed to get user action",
                                     "failed to get user selection">>)
              ELSE IF selected = "Exit"
              THEN Return("exit 0", Nil)
              ELSE /\ mode' = selected /\ autonomous' = FALSE
                   /\ pc' = "fetch"
                   /\ UNCHANGED <<call, cfg, docs, idx, stats, work, cur,
                                  iterStart, order, returned>>

\* 6. Execute, up to the empty check: GetDocuments and FilterDocuments
RunFetch ==
    /\ pc = "fetch"
    /\ \E o \in StoreOutcomes, results \in Listings :
         LET g == GetDocuments(o, results)
             filterType == IF mode = "title" THEN FilterTypeTitle
                           ELSE FilterTypeContent
             f == FilterDocuments(g.val, filterType, call.config.Filters)
         IN  IF g.err # Nil
             THEN Return("error", Errorf("failed to get documents", g.err))
             ELSE IF f.err # Nil
             THEN Return("error", Errorf("failed to filter documents", f.err))
             ELSE IF f.val = << >> THEN Return("nil", Nil)
             ELSE /\ docs' = f.val
                  /\ pc' = "confirm"
                  /\ UNCHANGED <<call, cfg, mode, autonomous, idx, stats,
                                 work, cur, iterStart, order, returned>>

\* what is left of the run's record once the action is past its
\* confirmation: the answer the confirmation got
Executing(answer) == [op |-> "Execute", done |-> FALSE, confirmed |-> answer]

\* the answers the confirmation can get; the title action does not ask in
\* autonomous mode
Confirmations ==
    IF mode = "title" /\ autonomous THEN {"not asked"}
    ELSE {"yes", "no", "error"}

\* the confirmation, had a refusal been taken for a yes
RunConfirm_IgnoresAnswer ==
    /\ pc = "confirm"
    /\ \E answer \in Confirmations :
         IF answer = "error"
         THEN /\ pc' = "exit"
              /\ returned' = "error"
              /\ call' = [Executing(answer) EXCEPT !.done = TRUE]
              /\ UNCHANGED <<cfg, mode, autonomous, docs, idx, stats, work,
                             cur, iterStart, order>>
         ELSE /\ pc' = "start"
              /\ call' = Executing(answer)
              /\ UNCHANGED <<cfg, mode, autonomous, docs, idx, stats, work,
                             cur, iterStart, order, returned>>

\* the confirmation, had it been asked in autonomous mode too
RunConfirm_AlwaysAsks ==
    /\ pc = "confirm"
    /\ \E answer \in {"yes", "no", "error"} :
         IF answer \in {"error", "no"}
         THEN /\ pc' = "exit"
              /\ returned' = IF answer = "error" THEN "error" ELSE "nil"
              /\ call' = [Executing(answer) EXCEPT !.done = TRUE]
              /\ UNCHANGED <<cfg, mode, autonomous, docs, idx, stats, work,
                             cur, iterStart, order>>
         ELSE /\ pc' = "start"
              /\ call' = Executing(answer)
              /\ UNCHANGED <<cfg, mode, autonomous, docs, idx, stats, work,
                             cur, iterStart, order, returned>>

\* 6. Execute, the confirmation before the pipeline
RunConfirm ==
    /\ pc = "confirm"
    /\ \E answer \in Confirmations :
         IF answer \in {"error", "no"}
         THEN /\ pc' = "exit"
              /\ returned' = IF answer = "error" THEN "error" ELSE "nil"
              /\ call' = [Executing(answer) EXCEPT !.done = TRUE]
              /\ UNCHANGED <<cfg, mode, autonomous, docs, idx, stats, work,
                             cur, iterStart, order>>
         ELSE /\ pc' = "start"
              /\ call' = Executing(answer)
              /\ UNCHANGED <<cfg, mode, autonomous, docs, idx, stats, work,
                             cur, iterStart, order, returned>>

NextRun ==
    \/ RunLoadConfig
    \/ RunValidate
    \/ RunCheckPaperless
    \/ RunCheckLLM
    \/ RunAskUserForAction
    \/ RunFetch
    \/ RunConfirm
    \/ StartPipeline
    \/ TitleIteration
    \/ AskTitle
    \/ RedoDownload
    \/ RedoRender
    \/ RedoOcr
    \/ RedoGenerate
    \/ AskSetContent
    \/ CommitTitle
    \/ OcrIteration
    \/ OcrRender
    \/ OcrExtract
    \/ OcrGenerate
    \/ OcrConfirm
    \/ OcrCommit
    \/ Finish

SpecRun == InitRun /\ [][NextRun]_vars

-----------------------------------------------------------------------------
(* Claims about the pipelines, checked under Spec *)

\* an iteration has run to its end and cur, iterStart describe it
IterationEnded == pc \in {"loop", "done"} /\ cur.doc # 0

Times(step) == Cardinality({i \in 1..Len(cur.steps) : cur.steps[i] = step})

Asks ==
    SelectSeq(cur.steps,
              LAMBDA x : x \in {"ask:error", "ask:custom", "ask:skip",
                                "ask:redo", "ask:caption"})

TitlePatches == SelectSeq(cur.patches, LAMBDA q : "title" \in DOMAIN q.updates)

\* C1: when a run of either pipeline ends, processed = total and
\* total = success + errors + skipped.
C1_FinalTally ==
    pc = "done"
    => /\ stats.processed = stats.total
       /\ stats.total = Len(docs)
       /\ stats.total = stats.success + stats.errors + stats.skipped

C1_Witness ==
    /\ pc = "done"
    /\ stats.total = 2
    /\ stats.skipped = 1
    /\ stats.errors = 1

\* C2: no failure on a document aborts the batch: the run never stops short,
\* documents are taken once each in list order, and when the run is over
\* every document has been taken and the pipeline has returned nil.
C2_BatchNeverAborted ==
    /\ pc # "panic"
    /\ order = [i \in 1..Len(order) |-> docs[i].ID]
    /\ pc = "done" => Len(order) = Len(docs) /\ returned = "nil"

\* C3: a failure at any step of a document's iteration, the redo-OCR
\* round-trip and the content commit of the title loop included, adds one
\* to errors and one to processed.
C3_FailureCountsAsError ==
    (IterationEnded /\ cur.fail # "none")
    => /\ stats.errors = iterStart.errors + 1
       /\ stats.processed = iterStart.processed + 1

\* C4 as stated: after redo-OCR twice and then a proposed title, the
\* document has had exactly two further download, render, OCR and title
\* generation round-trips, its title is patched, success is one higher and
\* processed is exactly one higher.
C4_Original ==
    (IterationEnded /\ Asks = <<"ask:redo", "ask:redo", "ask:caption">>)
    => /\ Times("download") = 2 /\ Times("render") = 2 /\ Times("ocr") = 2
       /\ Times("generate") = 3
       /\ Len(TitlePatches) = 1 /\ TitlePatches[1].ok
       /\ stats.success = iterStart.success + 1
       /\ stats.processed = iterStart.processed + 1

\* C4 amended: after redo-OCR twice and then a proposed title, the document
\* has had exactly two further round-trips, exactly one title Patch has been
\* sent for it and processed is exactly one higher; success is one higher
\* when that Patch succeeded, and errors is one higher when it failed.
C4_RedoTwiceThenAccept ==
    (IterationEnded /\ Asks = <<"ask:redo", "ask:redo", "ask:caption">>)
    => /\ Times("download") = 2 /\ Times("render") = 2 /\ Times("ocr") = 2
       /\ Times("generate") = 3
       /\ Len(TitlePatches) = 1
       /\ TitlePatches[1].id = cur.doc
       /\ TitlePatches[1].updates.title # << >>
       /\ stats.processed = iterStart.processed + 1
       /\ stats.skipped = iterStart.skipped
       /\ IF TitlePatches[1].ok
          THEN /\ stats.success = iterStart.success + 1
               /\ stats.errors = iterStart.errors
          ELSE /\ stats.success = iterStart.success
               /\ stats.errors = iterStart.errors + 1

C4_Witness ==
    /\ IterationEnded
    /\ Asks = <<"ask:redo", "ask:redo", "ask:caption">>
    /\ Len(TitlePatches) = 1 /\ TitlePatches[1].ok
    /\ stats.success = iterStart.success + 1

-----------------------------------------------------------------------------
(* Claims about the gateway, checked under SpecGateway *)

IsInfix(sub, e) ==
    \E i \in 0..(Len(e) - Len(sub)) : SubSeq(e, i + 1, i + Len(sub)) = sub

EndsWith(e, suffix) ==
    /\ Len(e) >= Len(suffix)
    /\ SubSeq(e, Len(e) - Len(suffix) + 1, Len(e)) = suffix

NonSuccess(o) == ~o.err /\ o.resp /\ ~(o.status \in 200..299)

\* the call got an HTTP 200 answer with at least one choice
Answered(c) ==
    /\ c.done /\ ~c.out.panic /\ c.out.calls >= 1
    /\ c.outs[c.out.calls] = Http200
    /\ ~c.body.readErr /\ c.body.json /\ Len(c.body.choices) >= 1

\* C5: when httpClient.Do returns an error and no response on 3 consecutive
\* attempts, doRequestWithRetry makes exactly 3 attempts and then returns an
\* error that says "after 3 attempts" and wraps the last transport error.
C5_ThreeFailuresThenError ==
    (/\ call.op = "doRequestWithRetry" /\ call.done
     /\ \A k \in 1..3 : call.outs[k] = TransportErr)
    => /\ ~call.out.panic
       /\ call.out.calls = 3
       /\ Contains(call.out.err, "failed to connect after 3 attempts")
       /\ EndsWith(call.out.err, TransportErr.msg)

\* C6: doRequestWithRetry calls the HTTP client at most 3 times; when attempt
\* k (1 or 2) fails at transport level (error, no response) and attempt k+1
\* succeeds it returns the response of attempt k+1 after exactly k+1 calls;
\* it sleeps 100ms before attempt 2, 200ms before attempt 3 and not after
\* the last attempt.
C6_RetryThenSuccess ==
    (call.op = "doRequestWithRetry" /\ call.done)
    => /\ call.out.calls <= 3
       /\ \A k \in 1..2 :
            (/\ \A j \in 1..(k - 1) : call.outs[j].err
             /\ call.outs[k] = TransportErr
             /\ ~call.outs[k + 1].err)
            => /\ ~call.out.panic
               /\ call.out.err = Nil
               /\ call.out.resp = call.outs[k + 1]
               /\ call.out.calls = k + 1
       /\ call.out.sleeps = [j \in 1..(call.out.calls - 1) |-> 100 * j]

\* C7: a response with a non-2xx status is never retried: the attempt that
\* got it is the last one (the only one when it is the first), the call
\* returns an error, and for the two chat calls the error carries the status
\* code and the raw response body.
C7_StatusNotRetried ==
    (call.op \in {"GenerateTitleFromContent", "MakeOcr", "CheckConnection"}
     /\ call.done)
    => \A k \in 1..call.out.calls :
         NonSuccess(call.outs[k])
         => /\ call.out.calls = k
            /\ ~call.out.panic
            /\ call.out.err # Nil
            /\ call.op # "CheckConnection"
               => /\ Contains(call.out.err,
                              "unexpected status code: "
                              \o ToString(call.outs[k].status))
                  /\ IsInfix(call.body.raw, call.out.err)

C7_Witness ==
    /\ call.op = "GenerateTitleFromContent" /\ call.done
    /\ call.outs[1] = Http500
    /\ call.out.calls = 1
    /\ Contains(call.out.err, "unexpected status code: 500")

\* C8 as stated: with empty content GenerateTitleFromContent makes no HTTP
\* call and returns the sentinel without error; with any non-empty content
\* it makes one HTTP attempt sequence of 1 to 3 tries.
C8_Original ==
    (call.op = "GenerateTitleFromContent" /\ call.done)
    => /\ call.input = << >>
          => /\ call.out.calls = 0
             /\ call.out.err = Nil
             /\ call.out.val =
                  [Summarize |-> <<"Empty document content">>,
                   Captions |-> <<[Caption |-> <<"EMPTY_CONTENT">>,
                                   Score |-> 0]>>]
       /\ call.input # << >> => call.out.calls \in 1..3

\* C8 amended: with empty content, no HTTP call and the sentinel without
\* error; with non-empty content, one HTTP attempt sequence of 1 to 3 tries
\* when the request is built and (in debug mode) its debug script is saved,
\* and otherwise no HTTP call and an error.
C8_EmptyContentNoCall ==
    (call.op = "GenerateTitleFromContent" /\ call.done)
    => /\ call.input = << >>
          => /\ call.out.calls = 0
             /\ ~call.out.panic
             /\ call.out.err = Nil
             /\ call.out.val =
                  [Summarize |-> <<"Empty document content">>,
                   Captions |-> <<[Caption |-> <<"EMPTY_CONTENT">>,
                                   Score |-> 0]>>]
       /\ (call.input # << >> /\ call.prep = "ok") => call.out.calls \in 1..3
       /\ (call.input # << >> /\ call.prep # "ok")
          => call.out.calls = 0 /\ call.out.err # Nil

C8_Witness ==
    /\ call.op = "GenerateTitleFromContent" /\ call.done
    /\ call.input = << >>
    /\ call.outs[1] = Http200
    /\ call.out.calls = 0
    /\ call.out.val.Captions[1].Caption = <<"EMPTY_CONTENT">>

\* C9: when the LLM answers 200 with a first choice that does not parse as
\* a CaptionResponse, GenerateTitleFromContent returns no error and exactly
\* one caption, the raw response text with score 0, under a summary that
\* reports the parse failure.
C9_UnparsableBecomesCaption ==
    (/\ call.op = "GenerateTitleFromContent" /\ Answered(call)
     /\ ~UnmarshalCaptionResponse(call.body.choices[1]).ok)
    => /\ call.out.err = Nil
       /\ Len(call.out.val.Captions) = 1
       /\ call.out.val.Captions[1] =
            [Caption |-> call.body.choices[1], Score |-> 0]
       /\ call.out.val.Summarize = <<"Failed to parse LLM response">>

C9_Witness ==
    /\ call.op = "GenerateTitleFromContent" /\ Answered(call)
    /\ call.body.choices[1] = TextProse
    /\ call.out.val.Captions = <<[Caption |-> TextProse, Score |-> 0]>>

\* C10: when the answer parses but its captions array is empty or absent,
\* GenerateTitleFromContent returns no error and one caption, the raw
\* response text with score 0, and keeps the parsed summary.
C10_EmptyCaptionsBecomeCaption ==
    (/\ call.op = "GenerateTitleFromContent" /\ Answered(call)
     /\ call.body.choices[1] \in {TextNoCaptions, TextAbsent})
    => /\ call.out.err = Nil
       /\ call.out.val.Captions =
            <<[Caption |-> call.body.choices[1], Score |-> 0]>>
       /\ call.out.val.Summarize = <<"A blank page">>

C10_Witness ==
    /\ call.op = "GenerateTitleFromContent" /\ Answered(call)
    /\ call.body.choices[1] = TextAbsent
    /\ call.out.val.Summarize = <<"A blank page">>
    /\ Len(call.out.val.Captions) = 1

\* C11: MakeOcr on bytes that do not start with FF D8, inputs shorter than
\* two bytes included, returns an error and makes no network call; on bytes
\* that do start with FF D8 it goes on to the OCR request, which carries the
\* image to the OCR model.
C11_NonJpegRejected ==
    (call.op = "MakeOcr" /\ call.done)
    => IF Len(call.input) >= 2 /\ call.input[1] = "FF" /\ call.input[2] = "D8"
       THEN /\ ~Contains(call.out.err, "invalid image data: not a valid JPEG")
            /\ call.out.err # Nil
               => Contains(call.out.err, "failed to extract content")
            /\ call.prep = "ok"
               => /\ call.out.calls \in 1..3
                  /\ call.out.req.image = call.input
                  /\ call.out.req.model = ModelOCR
       ELSE /\ ~call.out.panic
            /\ call.out.err = <<"invalid image data: not a valid JPEG">>
            /\ call.out.val = << >>
            /\ call.out.calls = 0
            /\ call.out.req = NoRequest

C11_Witness ==
    /\ call.op = "MakeOcr" /\ call.done
    /\ call.input = <<"FF", "00">>
    /\ call.prep = "ok" /\ call.outs[1] = Http200
    /\ call.out.calls = 0
    /\ call.out.err # << >>

-----------------------------------------------------------------------------
(* Claims about FilterDocuments, checked under SpecGateway *)

\* the pattern list FilterDocuments reads for the call's filter type
SelectedPatterns(c) ==
    IF c.filterType = FilterTypeTitle THEN c.filters.Title
    ELSE c.filters.Content

TargetText(c, d) ==
    IF c.filterType = FilterTypeTitle THEN d.Title ELSE d.Content

Filtering(c) ==
    /\ c.op = "FilterDocuments" /\ c.done
    /\ c.filterType \in {FilterTypeTitle, FilterTypeContent}

\* C12: whenever the configured pattern list holds a pattern that does not
\* compile, FilterDocuments returns an error naming that pattern and no
\* filtered list, whatever the document list: empty, or matched throughout
\* by an earlier valid pattern.
C12_InvalidPatternAlwaysError ==
    (/\ Filtering(call)
     /\ \E i \in 1..Len(SelectedPatterns(call)) :
          regexpCompile(SelectedPatterns(call)[i]) # Nil)
    => /\ call.out.err # Nil
       /\ \E i \in 1..Len(SelectedPatterns(call)) :
            /\ regexpCompile(SelectedPatterns(call)[i]) # Nil
            /\ IsInfix(SelectedPatterns(call)[i], call.out.err)
       /\ call.out.val = << >>

\* C13: with every pattern valid, FilterDocuments returns without error
\* exactly the documents whose title (title scope) or content (content
\* scope) is matched by at least one pattern, unmodified and in input order;
\* with no pattern it returns no document; patterns ^SCN_.*$ and .*BRN.*$
\* over the titles SCN_001, invoice, BRN-report keep SCN_001 and BRN-report.
C13_FilterKeepsMatches ==
    (/\ Filtering(call)
     /\ \A i \in 1..Len(SelectedPatterns(call)) :
          regexpCompile(SelectedPatterns(call)[i]) = Nil)
    => /\ call.out.err = Nil
       /\ call.out.val =
            SelectSeq(call.documents,
                      LAMBDA d :
                        \E i \in 1..Len(SelectedPatterns(call)) :
                          MatchString(SelectedPatterns(call)[i],
                                      TargetText(call, d)))
       /\ SelectedPatterns(call) = << >> => call.out.val = << >>
       /\ (/\ call.filterType = FilterTypeTitle
           /\ call.filters.Title = <<PatternScn, PatternBrn>>
           /\ [i \in 1..Len(call.documents) |-> call.documents[i].Title]
                = <<TitleScn, TitleInvoice, TitleBrn>>)
          => [i \in 1..Len(call.out.val) |-> call.out.val[i].Title]
               = <<TitleScn, TitleBrn>>

C13_Witness ==
    /\ Filtering(call)
    /\ call.filterType = FilterTypeTitle
    /\ call.filters.Title = <<PatternScn, PatternBrn>>
    /\ Len(call.documents) = 3
    /\ call.documents[1].Title = TitleScn
    /\ call.documents[2].Title = TitleInvoice
    /\ call.documents[3].Title = TitleBrn
    /\ Len(call.out.val) = 2
    /\ call.out.val[2] = call.documents[3]

-----------------------------------------------------------------------------
(* Claims about the title prompt *)

Descending(caps) ==
    \A i, j \in 1..Len(caps) : i < j => caps[i].Score >= caps[j].Score

SameCaptions(a, b) ==
    /\ Len(a) = Len(b)
    /\ \A c \in {a[i] : i \in 1..Len(a)} \cup {b[i] : i \in 1..Len(b)} :
         Cardinality({i \in 1..Len(a) : a[i] = c})
         = Cardinality({i \in 1..Len(b) : b[i] = c})

\* C14: every time the title prompt is shown, after a redo-OCR too, the
\* caption options are the captions of the latest response in descending
\* score order, so the first option is a caption of maximum score; for
\* captions {Invoice Jan, 0.4}, {Invoice January 2024, 0.9} the first option
\* is Invoice January 2024.  Checked under Spec.
C14_OptionsByDescendingScore ==
    /\ pc = "ask"
       => \A sorted \in SortOutcomes(work.captions.Captions) :
            LET options == titleOptions(sorted) IN
            /\ Len(options) = Len(sorted) + 3
            /\ SameCaptions(sorted, work.generated.Captions)
            /\ Descending(sorted)
            /\ \A i \in 1..Len(sorted) :
                 /\ options[i] = Display(i, sorted[i])
                 /\ sorted[1].Score >= sorted[i].Score
            /\ work.generated.Captions
                 = <<Caption(<<"Invoice Jan">>, 4),
                     Caption(<<"Invoice January 2024">>, 9)>>
               => options[1] = <<"1", ". ", "Invoice January 2024",
                                 " (Score: ", "9", ")">>
    /\ (pc = "commit" /\ ~autonomous)
       => Descending(work.shown) /\ work.shown # << >>

C14_Witness ==
    /\ pc = "ask"
    /\ cur.redos = 1
    /\ work.captions.Captions = <<Caption(<<"Invoice Jan">>, 4),
                                  Caption(<<"Invoice January 2024">>, 9)>>

\* where a caption stands in a response
Position(caps, c) == CHOOSE k \in 1..Len(caps) : caps[k] = c

\* C15: the ordering by score is stable: in the options of the prompt, two
\* captions of equal score stand in the order they had in the LLM's
\* response, for every response.  Checked under SpecGateway.
C15_StableOrder ==
    (/\ call.op = "askUserForTitleSelection" /\ call.done
     /\ call.answer.kind = "pick")
    => \A i, j \in 1..Len(call.sorted) :
         (i < j /\ call.sorted[i].Score = call.sorted[j].Score)
         => /\ call.out.options[i] = Display(i, call.sorted[i])
            /\ call.out.options[j] = Display(j, call.sorted[j])
            /\ Position(call.captionResp.Captions, call.sorted[i])
               < Position(call.captionResp.Captions, call.sorted[j])

-----------------------------------------------------------------------------
(* Claims about the decision step of the title pipeline, checked under Spec *)

Blank(text) == \A k \in 1..Len(text) : text[k] = " "

Skipped ==
    /\ stats.skipped = iterStart.skipped + 1
    /\ stats.processed = iterStart.processed + 1
    /\ stats.success = iterStart.success
    /\ stats.errors = iterStart.errors

ContentPatches ==
    SelectSeq(cur.patches, LAMBDA q : "content" \in DOMAIN q.updates)

\* the iteration's last answer at the title prompt chose custom entry and
\* the text input worked
CustomEntered ==
    /\ IterationEnded
    /\ cur.last.kind = "pick" /\ cur.last.option = "custom"
    /\ ~cur.last.textErr

\* C16: when the operator chooses custom-title entry and enters empty or
\* whitespace-only text, the document ends skipped: no title Patch is sent
\* and skipped, not success or errors, goes up by one; a non-blank entry is
\* sent as the title with the surrounding whitespace trimmed.
C16_BlankCustomTitleSkips ==
    CustomEntered
    => IF Blank(cur.last.text)
       THEN TitlePatches = << >> /\ Skipped
       ELSE /\ Len(TitlePatches) = 1
            /\ TitlePatches[1].id = cur.doc
            /\ DOMAIN TitlePatches[1].updates = {"title"}
            /\ TitlePatches[1].updates.title = TrimSpace(cur.last.text)
            /\ ~Blank(TitlePatches[1].updates.title)
            /\ cur.last.text = <<" ", "My title", " ">>
               => TitlePatches[1].updates.title = <<"My title">>
            /\ stats.skipped = iterStart.skipped

C16_Witness ==
    /\ CustomEntered
    /\ cur.last.text = <<" ">>
    /\ TitlePatches = << >>
    /\ stats.skipped = iterStart.skipped + 1

\* a prompt of the iteration failed: the select prompt, the custom text
\* input, or the content confirmation
PromptFailed ==
    \/ cur.last.kind = "error"
    \/ cur.last.textErr
    \/ Times("confirm:error") > 0

\* C17: when a prompt fails during a document's decision step (the title
\* selection, the custom title input or the content confirmation), the
\* document is skipped: skipped and processed go up by one, no title is
\* committed, and the batch goes on with the next document.
C17_PromptFailureSkips ==
    (IterationEnded /\ PromptFailed)
    => /\ Skipped
       /\ TitlePatches = << >>
       /\ idx = Len(order) + 1

\* C18: choosing redo-OCR does not end the iteration: each choice is
\* followed by one download, render, OCR and title generation for the same
\* document, the captions in hand are then those of the new response and
\* the prompt is shown again with them alone; nothing in the program limits
\* the number of rounds.
C18_RedoReentersPrompt ==
    /\ IterationEnded => cur.steps[Len(cur.steps)] # "ask:redo"
    /\ pc \in {"redo_download", "redo_render", "redo_ocr", "redo_generate",
                "ask_content"}
       => /\ cur.steps # << >>
          /\ Asks[Len(Asks)] = "ask:redo"
          /\ cur.doc = docs[idx].ID
          /\ stats = iterStart
    /\ pc = "ask"
       => /\ cur.doc = docs[idx].ID
          /\ stats = iterStart
          /\ Times("ask:redo") = cur.redos
          /\ Asks = [k \in 1..cur.redos |-> "ask:redo"]
          /\ Times("download") = cur.redos
          /\ Times("render") = cur.redos
          /\ Times("ocr") = cur.redos
          /\ Times("generate") = cur.redos + 1
          /\ cur.redos > 0 => work.captions = work.generated
          /\ \A sorted \in SortOutcomes(work.captions.Captions) :
               /\ SameCaptions(sorted, work.generated.Captions)
               /\ Len(titleOptions(sorted)) = Len(work.generated.Captions) + 3

C18_Witness ==
    /\ pc = "ask"
    /\ cur.redos = MaxRedo
    /\ Times("generate") = MaxRedo + 1
    /\ work.generated.Captions = <<Caption(<<"Letter A">>, 5),
                                   Caption(<<"Letter B">>, 5)>>

ContentStep == mode = "title" /\ pc = "ask_content" /\ cur' # cur

Confirmed == cur'.steps[Len(cur.steps) + 1] = "confirm:yes"

CaptionPicked ==
    /\ IterationEnded
    /\ cur.last.kind = "pick" /\ cur.last.option = "caption"

\* C20 as stated: when the operator picks a proposed caption, a Patch with
\* that caption's text as the only field, title, is sent for the document;
\* a document that ends skipped gets no title Patch.
C20_Original ==
    /\ CaptionPicked
       => /\ Len(TitlePatches) = 1
          /\ TitlePatches[1].id = cur.doc
          /\ TitlePatches[1].updates = [title |-> cur.last.caption]
    /\ (IterationEnded /\ stats.skipped = iterStart.skipped + 1)
       => TitlePatches = << >>

\* C20 amended: when the operator picks a proposed caption whose text is
\* not empty, a Patch with that text as the only field, title, is sent for
\* the document; a caption with empty text is refused and the document is
\* skipped; a document that ends skipped gets no title Patch.
C20_PickedCaptionIsPatched ==
    /\ CaptionPicked
       => IF cur.last.caption # << >>
          THEN /\ Len(TitlePatches) = 1
               /\ TitlePatches[1].id = cur.doc
               /\ TitlePatches[1].updates = [title |-> cur.last.caption]
               /\ stats.skipped = iterStart.skipped
          ELSE TitlePatches = << >> /\ Skipped
    /\ (pc = "commit" /\ work.answer.kind = "pick"
        /\ work.answer.option <= Len(work.shown))
       => work.title = work.shown[work.answer.option].Caption
    /\ (IterationEnded /\ stats.skipped = iterStart.skipped + 1)
       => TitlePatches = << >>

C20_Witness ==
    /\ CaptionPicked
    /\ cur.last.caption = <<"Invoice Jan">>
    /\ Len(TitlePatches) = 1
    /\ TitlePatches[1].updates = [title |-> <<"Invoice Jan">>]
    /\ TitlePatches[1].ok

-----------------------------------------------------------------------------
(* Claims about the autonomous title pipeline, checked under Spec *)

AutoSuffix == <<" (auto-generated)">>

\* C21: in autonomous mode, for every document whose title generation
\* returns at least one caption, the pipeline asks nobody, takes a caption
\* of the highest score and sends one title Patch for the document with
\* that caption's text followed by " (auto-generated)".
C21_AutonomousPicksTopCaption ==
    /\ [](/\ (autonomous /\ pc = "commit")
             => /\ cur.steps = <<"generate">>
                /\ cur.doc = docs[idx].ID
                /\ \E i \in 1..Len(work.generated.Captions) :
                     /\ \A j \in 1..Len(work.generated.Captions) :
                          work.generated.Captions[i].Score
                          >= work.generated.Captions[j].Score
                     /\ work.title
                        = work.generated.Captions[i].Caption \o AutoSuffix
          /\ (autonomous /\ IterationEnded)
             => /\ Asks = << >>
                /\ IF cur.fail = "generate"
                   THEN cur.patches = << >>
                   ELSE /\ Len(cur.patches) = 1
                        /\ cur.patches[1].id = cur.doc
                        /\ DOMAIN cur.patches[1].updates = {"title"}
                        /\ EndsWith(cur.patches[1].updates.title,
                                    AutoSuffix))
    /\ [][(autonomous /\ pc = "commit")
          => /\ Len(cur'.patches) = 1
             /\ cur'.patches[1].id = docs[idx].ID
             /\ cur'.patches[1].updates = [title |-> work.title]]_vars

C21_Witness ==
    /\ autonomous /\ IterationEnded
    /\ Len(cur.patches) = 1
    /\ cur.patches[1].ok
    /\ cur.patches[1].updates.title
       = <<"Invoice January 2024", " (auto-generated)">>

-----------------------------------------------------------------------------
(* Claims about the availability probe, checked under SpecGateway *)

\* the probe got status 200 and a model list it could parse
ModelsListed ==
    /\ call.op = "CheckConnection" /\ call.done
    /\ ~call.out.panic
    /\ call.prep = "ok"
    /\ doRequestWithRetry(call.outs).err = Nil
    /\ doRequestWithRetry(call.outs).resp.status = 200
    /\ ~call.body.readErr /\ call.body.json

\* C22: when the configured title-generation model id or the configured
\* OCR model id is absent from the model list the endpoint returned,
\* CheckConnection returns an error whose message contains every id of
\* that list; with status 200 and both ids listed it returns no error.
C22_ProbeListsFoundModels ==
    ModelsListed
    => IF Has(call.body.data, ModelTitleGeneration)
          /\ Has(call.body.data, ModelOCR)
       THEN call.out.err = Nil
       ELSE /\ call.out.err # Nil
            /\ \A i \in 1..Len(call.body.data) :
                 IsInfix(call.body.data[i], call.out.err)

C22_Witness ==
    /\ ModelsListed
    /\ call.body.data = <<<<"other-model">>, ModelOCR>>
    /\ call.out.err
       = <<"title generation model '", "title-model",
           "' not available, found ", "other-model">> \o ModelOCR

-----------------------------------------------------------------------------
(* Claims about configuration validation, checked under SpecGateway *)

Validated == call.op = "Validate" /\ call.done

StartsWith(e, prefix) ==
    /\ Len(e) >= Len(prefix)
    /\ SubSeq(e, 1, Len(prefix)) = prefix

RequiredSet(c) == \A f \in RequiredFields : c[f] # Nil

\* the first pattern of the list that does not compile, or 0
FirstInvalid(patterns) ==
    IF \A j \in 1..Len(patterns) : regexpCompile(patterns[j]) = Nil THEN 0
    ELSE CHOOSE j \in 1..Len(patterns) :
           /\ regexpCompile(patterns[j]) # Nil
           /\ \A k \in 1..(j - 1) : regexpCompile(patterns[k]) = Nil

\* C27: Validate returns an error whenever a configured title or content
\* filter pattern does not compile; when all required connection and model
\* fields are set, the error names the first such pattern, title patterns
\* before content patterns.
C27_InvalidPatternRejected ==
    Validated
    => LET t == call.config.Filters.Title
           k == call.config.Filters.Content
       IN  (FirstInvalid(t) # 0 \/ FirstInvalid(k) # 0)
           => /\ call.out.err # Nil
              /\ RequiredSet(call.config)
                 => IF FirstInvalid(t) # 0
                    THEN /\ StartsWith(call.out.err,
                                       <<"invalid ", "title",
                                         " filter pattern '">>)
                         /\ IsInfix(t[FirstInvalid(t)], call.out.err)
                    ELSE /\ StartsWith(call.out.err,
                                       <<"invalid ", "content",
                                         " filter pattern '">>)
                         /\ IsInfix(k[FirstInvalid(k)], call.out.err)

C27_Witness ==
    /\ Validated
    /\ RequiredSet(call.config)
    /\ call.config.PromptsOCR # Nil /\ call.config.PromptsTitleGeneration # Nil
    /\ call.found
    /\ call.config.Filters.Title = <<PatternScn>>
    /\ call.config.Filters.Content = <<PatternBrn, PatternUnclosed>>
    /\ call.out.err # Nil

-----------------------------------------------------------------------------
(* Claims about the start of a run, checked under SpecRun *)

\* the run got as far as its probes and one of them cannot succeed
StartupFails ==
    /\ call.op = "Run"
    /\ LoadConfig(call.load) = Nil
    /\ Validate(call.config, call.found) = Nil
    /\ \/ PaperlessCheckConnection(call.store) # Nil
       \/ call.llm.outs # Always(Http200)
       \/ ~Has(call.llm.body.data, ModelTitleGeneration)
       \/ ~Has(call.llm.body.data, ModelOCR)

\* C23: when the store probe fails, the LLM is unreachable or a required
\* model is absent, Run ends by returning an error, and it never gets to
\* selecting an action, listing documents or a pipeline.
C23_StartupFailuresFatal ==
    StartupFails
    => /\ pc \in {"run", "validate", "probe_store", "probe_llm", "exit"}
       /\ pc = "exit" => returned = "error" /\ call.err # Nil
       /\ docs = << >> /\ order = << >> /\ cur = Fresh(0) /\ mode = "none"

-----------------------------------------------------------------------------
(* Claims about the OCR pipeline and the two setters, checked under Spec *)

\* the texts MakeOcr can return for the bytes in hand
ExtractedTexts ==
    {MakeOcr(work.data, env).val :
       env \in {e \in Worlds(OcrBodies) :
                 /\ ~MakeOcr(work.data, e).panic
                 /\ MakeOcr(work.data, e).err = Nil}}

\* C24: in the OCR pipeline the text MakeOcr returned reaches the commit
\* unchanged; the commit sends at most one Patch, for the document at hand,
\* with the content field only and that text in it; a Patch is sent only
\* in an iteration whose confirmation was answered yes; when the operator
\* declines, no Patch is sent and the document is counted as skipped.
C24_OcrPatchAfterConfirmation ==
    /\ [][/\ (pc = "ocr_extract" /\ pc' = "ocr_generate")
             => work'.text \in ExtractedTexts
          /\ (pc \in {"ocr_generate", "ocr_confirm"}
              /\ pc' \in {"ocr_confirm", "ocr_commit"})
             => work'.text = work.text
          /\ pc = "ocr_commit"
             => /\ cur.steps[Len(cur.steps)] = "confirm:yes"
                /\ cur.patches = << >>
                /\ cur'.patches
                   \in {<< >>} \cup
                       {<<[id |-> docs[idx].ID,
                           updates |-> [content |-> work.text],
                           ok |-> b]>> : b \in BOOLEAN}]_vars
    /\ [](mode = "ocr"
          => /\ cur.patches # << >> => Times("confirm:yes") = 1
             /\ (IterationEnded /\ Times("confirm:no") > 0)
                => cur.patches = << >> /\ Skipped)

C24_Witness ==
    /\ mode = "ocr" /\ IterationEnded
    /\ cur.steps = <<"download", "render", "ocr", "generate", "confirm:yes",
                     "patch:content">>
    /\ cur.patches = <<[id |-> cur.doc, updates |-> [content |-> TextOcr],
                        ok |-> TRUE]>>

C24_WitnessDeclined ==
    /\ mode = "ocr" /\ IterationEnded
    /\ Times("confirm:no") = 1
    /\ cur.patches = << >>

\* the arguments a setter must refuse: an id that is not positive, or an
\* empty value
Refused(documentID, value) == documentID <= 0 \/ value = Nil

SetterArguments == {-1, 0, 1} \X {Nil, <<"x">>}

\* C25: both setters answer an id <= 0 or an empty value with an error and
\* send nothing; no Patch of either pipeline has an id <= 0 or an empty
\* field; and a document whose commit failed is never counted as a success:
\* its iteration ends counted once, as an error or as skipped.
C25_NoEmptyPatch ==
    /\ \A a \in SetterArguments, o \in StoreOutcomes :
         Refused(a[1], a[2])
         => /\ SetTitleOfPaperlessDocument(a[1], a[2], o).sent = << >>
            /\ SetTitleOfPaperlessDocument(a[1], a[2], o).err # Nil
            /\ SetContentOfPaperlessDocument(a[1], a[2], o).sent = << >>
            /\ SetContentOfPaperlessDocument(a[1], a[2], o).err # Nil
    /\ \A i \in 1..Len(cur.patches) :
         /\ cur.patches[i].id > 0
         /\ \A f \in DOMAIN cur.patches[i].updates :
              cur.patches[i].updates[f] # Nil
    /\ (IterationEnded /\ cur.fail \in {"patch:title", "patch:content"})
       => /\ stats.success = iterStart.success
          /\ stats.processed = iterStart.processed + 1
          /\ stats.errors + stats.skipped
             = iterStart.errors + iterStart.skipped + 1

\* a confirmed commit of an empty OCR text: refused, nothing sent
C25_Witness ==
    /\ mode = "ocr" /\ IterationEnded
    /\ cur.steps = <<"download", "render", "ocr", "generate", "confirm:yes",
                     "patch:content">>
    /\ cur.fail = "patch:content"
    /\ cur.patches = << >>
    /\ stats.errors = iterStart.errors + 1

-----------------------------------------------------------------------------
(* Claims about the statistics, checked under Spec *)

Counters == {"processed", "success", "errors", "skipped"}

\* C26: during a pipeline run no counter decreases and total does not
\* change once the pipeline has set it; between iterations processed is the
\* sum of success, errors and skipped, equals the number of documents
\* handled so far, and is at most total.
C26_CountersMonotone ==
    /\ [][/\ \A k \in Counters : stats'[k] >= stats[k]
          /\ pc # "start" => stats'.total = stats.total]_vars
    /\ [](pc \in {"loop", "done"}
          => /\ stats.processed
                = stats.success + stats.errors + stats.skipped
             /\ stats.processed = Len(order)
             /\ stats.processed = idx - 1
             /\ stats.processed <= stats.total
             /\ stats.total = Len(docs))

C26_Witness ==
    /\ pc = "loop"
    /\ stats.total = 2 /\ stats.processed = 1 /\ stats.errors = 1
    /\ order = <<1>>

-----------------------------------------------------------------------------
(* Claims about the order of the steps, checked under Spec *)

IsPrefix(p, q) == Len(p) <= Len(q) /\ SubSeq(q, 1, Len(p)) = p

\* the steps of one document in the OCR pipeline, for each way the
\* operator can decide
OcrStepOrders ==
    {<<"download", "render", "ocr", "generate", "confirm:" \o a,
       "patch:content">> : a \in ConfirmAnswers}

\* C28: in the OCR pipeline the steps of a document are a prefix of
\* download, render, ocr, generate, confirm, patch; in the round-trip of
\* OcrPaperlessDocument render follows download, ocr follows render and
\* generate follows ocr; a failed step is the last step of its document,
\* and in the OCR pipeline no Patch was sent unless every step before the
\* commit succeeded.
C28_StepsInOrder ==
    /\ mode = "ocr" => \E q \in OcrStepOrders : IsPrefix(cur.steps, q)
    /\ \A i \in 1..Len(cur.steps) :
         /\ cur.steps[i] = "render" => i > 1 /\ cur.steps[i - 1] = "download"
         /\ cur.steps[i] = "ocr" => i > 1 /\ cur.steps[i - 1] = "render"
         /\ cur.steps[i] = "generate"
            => \/ i > 1 /\ cur.steps[i - 1] = "ocr"
               \/ i = 1 /\ mode = "title"
         /\ cur.steps[i] = "patch:content"
            => i > 1 /\ cur.steps[i - 1] = "confirm:yes"
         /\ (cur.steps[i] = "download" /\ mode = "title")
            => i > 1 /\ cur.steps[i - 1] = "ask:redo"
    /\ cur.fail # "none"
       => /\ cur.steps # << >>
          /\ cur.steps[Len(cur.steps)] = cur.fail
          /\ Times(cur.fail) = 1 \/ mode = "title"
          /\ pc \in {"loop", "done", "panic"}
          /\ (mode = "ocr" /\ cur.fail # "patch:content")
             => cur.patches = << >>

C28_Witness ==
    /\ mode = "ocr" /\ IterationEnded
    /\ cur.steps = <<"download", "render">>
    /\ cur.fail = "render"
    /\ cur.patches = << >>

C28_WitnessRoundTrip ==
    /\ mode = "title" /\ IterationEnded
    /\ cur.steps = <<"generate", "ask:redo", "download", "render", "ocr">>
    /\ cur.fail = "ocr"

-----------------------------------------------------------------------------
(* Claims about the title prompt, checked under SpecGateway *)

\* a title-generation call that got as far as building its request
TitleRequested ==
    /\ call.op = "GenerateTitleFromContent" /\ call.done
    /\ call.input # Nil
    /\ call.out.req # NoRequest

\* the prompt the configured template gives for the content
PromptOfTemplate(content, config) ==
    ReplaceAll(ReplaceAll(PromptTitleGeneration, "{content}",
                          Truncate(content, config.truncate)),
               "{truncate_chars}", <<ToString(config.truncate)>>)

\* C29: the user message of a title-generation request is the configured
\* title-generation prompt template with {content} replaced by the
\* truncated document content and {truncate_chars} by the configured
\* maximum, so the document content is part of the request.
C29_PromptFromTemplate ==
    TitleRequested
    => /\ call.out.req.prompt = PromptOfTemplate(call.input, call.config)
       /\ IsInfix(Truncate(call.input, call.config.truncate),
                  call.out.req.prompt)

\* Content is a sequence of bytes; "C3" opens a character of two bytes and
\* "A9" is its second byte, all other bytes are characters of their own.
IsContinuation(b) == b = "A9"

\* the number of characters of the content
CharCount(content) ==
    Cardinality({i \in 1..Len(content) : ~IsContinuation(content[i])})

\* the prefix of the content made of its first n characters
CharPrefix(content, n) ==
    LET ends == {k \in 0..Len(content) :
                   /\ CharCount(SubSeq(content, 1, k)) = n
                   /\ k < Len(content) => ~IsContinuation(content[k + 1])}
    IN  SubSeq(content, 1, CHOOSE k \in ends : TRUE)

\* C30: the content is truncated only when the configured maximum is > 0
\* and the content has more characters than it; the truncated content is
\* the prefix of exactly that many characters, cut at a character boundary;
\* otherwise the content is unchanged.
C30_TruncatesByCharacters ==
    (call.op = "Truncate" /\ call.done)
    => call.out.content
       = IF call.config.truncate > 0
            /\ CharCount(call.input) > call.config.truncate
         THEN CharPrefix(call.input, call.config.truncate)
         ELSE call.input

-----------------------------------------------------------------------------
(* Claims about store failures in the pipelines, checked under Spec *)

StoreSteps == {"download", "patch:title", "patch:content"}

\* C31: when a call of the document store (download or Patch) fails inside
\* a pipeline, the document is counted as an error (errors and processed
\* go up by one, success and skipped stay) and the batch goes on.
C31_StoreFailureIsDocumentError ==
    (IterationEnded /\ cur.fail \in StoreSteps)
    => /\ stats.errors = iterStart.errors + 1
       /\ stats.processed = iterStart.processed + 1
       /\ stats.skipped = iterStart.skipped
       /\ stats.success = iterStart.success

-----------------------------------------------------------------------------
(* Claims about the answers of the chat endpoint, checked under SpecGateway *)

\* a chat call that sent its request and got HTTP 200 with a body that
\* parses as a chat response
ChatAnswered ==
    /\ call.op \in {"MakeOcr", "GenerateTitleFromContent"} /\ call.done
    /\ call.prep = "ok"
    /\ call.op = "MakeOcr" => IsJpeg(call.input)
    /\ call.op = "GenerateTitleFromContent" => call.input # Nil
    /\ ~call.out.panic
    /\ doRequestWithRetry(call.outs).err = Nil
    /\ doRequestWithRetry(call.outs).resp.status = 200
    /\ ~call.body.readErr /\ call.body.json

\* C32: on HTTP 200 with at least one choice MakeOcr returns the message
\* content of the first choice as it is, without an error; on HTTP 200
\* with no choice MakeOcr and GenerateTitleFromContent both return the
\* error "no choices in response" and no text or caption.
C32_FirstChoiceVerbatim ==
    ChatAnswered
    => IF Len(call.body.choices) = 0
       THEN /\ call.out.err # Nil
            /\ IsInfix(<<"no choices in response">>, call.out.err)
            /\ call.out.val \in {Nil, NoCaptions}
       ELSE call.op = "MakeOcr"
            => /\ call.out.err = Nil
               /\ call.out.val = call.body.choices[1]

C32_Witness ==
    /\ ChatAnswered
    /\ call.op = "MakeOcr"
    /\ call.body.choices = <<TextTwo>>
    /\ call.out.val = TextTwo

C32_WitnessNoChoices ==
    /\ ChatAnswered
    /\ call.op = "GenerateTitleFromContent"
    /\ call.body.choices = << >>
    /\ call.out.err = <<"failed to generate title", "no choices in response">>

\* C33: whenever GenerateTitleFromContent returns without an error, for
\* every content and every answer of the endpoint, the CaptionResponse it
\* returns has at least one caption.
C33_AlwaysACaption ==
    (/\ call.op = "GenerateTitleFromContent" /\ call.done
     /\ ~call.out.panic
     /\ call.out.err = Nil)
    => Len(call.out.val.Captions) >= 1

\* an answer that parses but has an empty captions array
C33_Witness ==
    /\ ChatAnswered
    /\ call.op = "GenerateTitleFromContent"
    /\ call.body.choices = <<TextNoCaptions>>
    /\ call.out.err = Nil
    /\ call.out.val.Captions = <<Caption(TextNoCaptions, 0)>>

-----------------------------------------------------------------------------
(* Claims about the action before its pipeline, checked under SpecRun *)

PipelineUntouched ==
    /\ stats = NoStats /\ idx = 0 /\ iterStart = NoStats
    /\ order = << >> /\ cur = Fresh(0) /\ work = NoWork

\* C39: a pipeline is started only by an action whose filter kept at least
\* one document and whose confirmation was answered yes (or, in autonomous
\* mode, not asked); when the filter keeps nothing, the operator declines
\* or the confirmation fails, the run ends with no statistics started and
\* no document downloaded, sent to the LLM or patched.
C39_NothingWithoutConfirmation ==
    /\ [](pc \in {"run", "validate", "probe_store", "probe_llm",
                  "ask_action", "fetch", "confirm", "start", "exit"}
          => PipelineUntouched)
    /\ [][/\ pc' = "confirm" => docs' # << >>
          /\ (pc = "fetch" /\ pc' = "exit") => docs' = << >>
          /\ (pc # "start" /\ pc' = "start")
             => /\ pc = "confirm" /\ docs # << >>
                /\ call'.confirmed \in {"yes", "not asked"}
                /\ call'.confirmed = "not asked" => autonomous
          /\ (pc = "confirm" /\ pc' = "exit")
             => /\ call'.confirmed \in {"no", "error"}
                /\ returned' = IF call'.confirmed = "no" THEN "nil"
                                ELSE "error"]_vars

\* the operator declined
C39_Witness ==
    /\ pc = "exit" /\ call.op = "Execute" /\ call.confirmed = "no"
    /\ docs # << >> /\ returned = "nil"
    /\ PipelineUntouched

\* the content filter kept no document
C39_WitnessEmpty ==
    /\ pc = "exit" /\ call.op = "Run" /\ mode = "ocr"
    /\ docs = << >> /\ returned = "nil"
    /\ PipelineUntouched

\* C34: in autonomous mode no prompt is shown, neither the confirmation of
\* the batch nor the title selection, and nothing is counted as skipped:
\* every document that ends, ends as a success or as an error after one
\* attempt to patch its title; for a document with empty content the title
\* sent is the sentinel caption followed by " (auto-generated)".
C34_AutonomousAsksNobody ==
    autonomous
    => /\ mode = "title"
       /\ call.op = "Execute" => call.confirmed = "not asked"
       /\ stats.skipped = 0
       /\ Asks = << >>
       /\ \A i \in 1..Len(cur.steps) :
            cur.steps[i] \in {"generate", "patch:title"}
       /\ pc \in {"loop", "done"}
          => stats.processed = stats.success + stats.errors
       /\ (IterationEnded /\ cur.fail # "generate")
          => /\ Len(cur.patches) = 1
             /\ EndsWith(cur.patches[1].updates.title, AutoSuffix)
             /\ docs[idx - 1].ID = cur.doc
             /\ docs[idx - 1].Content = Nil
                => cur.patches[1].updates.title
                   = <<"EMPTY_CONTENT">> \o AutoSuffix

\* a document with empty content in a batch nobody confirmed
C34_Witness ==
    /\ autonomous /\ IterationEnded
    /\ call = Executing("not asked")
    /\ cur.patches = <<[id |-> cur.doc,
                        updates |-> [title |-> <<"EMPTY_CONTENT">>
                                                \o AutoSuffix],
                        ok |-> TRUE]>>
    /\ stats.success = iterStart.success + 1

\* an answer of the LLM that does not parse
C34_WitnessUnparsable ==
    /\ autonomous /\ IterationEnded
    /\ Len(cur.patches) = 1
    /\ cur.patches[1].updates.title = TextProse \o AutoSuffix

-----------------------------------------------------------------------------
(* Claims about the Patches of a run, checked under Spec *)

\* this step is the commit step of its pipeline and its Patch succeeded
CommitSucceeds ==
    /\ pc = IF mode = "title" THEN "commit" ELSE "ocr_commit"
    /\ Len(cur'.patches) = Len(cur.patches) + 1
    /\ LET sent == cur'.patches[Len(cur'.patches)] IN
       /\ sent.ok
       /\ sent.id = docs[idx].ID
       /\ DOMAIN sent.updates
          = IF mode = "title" THEN {"title"} ELSE {"content"}

\* C35: success starts at 0 and goes up, by one, in exactly the steps in
\* which the commit-step Patch of a document succeeds (the title Patch in
\* the title pipeline, the content Patch in the OCR pipeline); a content
\* Patch of the redo-OCR loop leaves success as it is.
C35_SuccessCountsCommits ==
    /\ [](pc = "start" => stats.success = 0)
    /\ [][/\ stats'.success
             = IF CommitSucceeds THEN stats.success + 1 ELSE stats.success
          /\ pc = "ask_content" => stats'.success = stats.success]_vars

\* a document whose redo-OCR content Patch succeeded and whose title Patch
\* failed is no success
C35_Witness ==
    /\ mode = "title" /\ IterationEnded
    /\ Len(cur.patches) = 2
    /\ cur.patches[1].ok /\ "content" \in DOMAIN cur.patches[1].updates
    /\ ~cur.patches[2].ok /\ "title" \in DOMAIN cur.patches[2].updates
    /\ stats.success = iterStart.success

C35_WitnessCommitted ==
    /\ mode = "ocr" /\ IterationEnded
    /\ Len(cur.patches) = 1 /\ cur.patches[1].ok
    /\ stats.success = iterStart.success + 1

\* every Patch of the iteration is for its document, and the document is
\* the one the pipeline took up last
PatchesOfDocument ==
    /\ \A i \in 1..Len(cur.patches) : cur.patches[i].id = cur.doc
    /\ cur.doc # 0 => cur.doc = order[Len(order)]
    /\ \A i, j \in 1..Len(order) : order[i] = order[j] => i = j

\* C36: every document is taken up once; the title pipeline sends at most
\* one title Patch for it and the OCR pipeline at most one content Patch
\* and no title Patch, however many redo-OCR rounds or failures there are.
C36_OneCommitPerDocument ==
    /\ PatchesOfDocument
    /\ mode = "title" => Len(TitlePatches) <= 1
    /\ mode = "ocr" => Len(ContentPatches) <= 1 /\ TitlePatches = << >>

\* two redo-OCR rounds with a content Patch each, then one title Patch
C36_Witness ==
    /\ mode = "title" /\ IterationEnded
    /\ cur.redos = 2
    /\ Len(ContentPatches) = 2
    /\ Len(TitlePatches) = 1

\* C37: in the title pipeline the title Patch of a document is the last
\* Patch sent for it: every content Patch of its redo-OCR rounds was sent
\* before, the iteration ends with the title Patch, and every Patch is for
\* the document the pipeline is at.
C37_ContentBeforeTitle ==
    mode = "title"
    => /\ PatchesOfDocument
       /\ \A i \in 1..Len(cur.patches) :
            "title" \in DOMAIN cur.patches[i].updates
            => /\ i = Len(cur.patches)
               /\ pc \in {"loop", "done"}
               /\ cur.steps[Len(cur.steps)] = "patch:title"

C37_Witness ==
    /\ mode = "title" /\ IterationEnded
    /\ Len(cur.patches) = 2
    /\ DOMAIN cur.patches[1].updates = {"content"}
    /\ DOMAIN cur.patches[2].updates = {"title"}
    /\ cur.patches[1].ok /\ cur.patches[2].ok

-----------------------------------------------------------------------------
(* Claims about termination, checked under SpecLive *)

\* C38: a pipeline run over a finite batch in which every call returns
\* and the operator asks for at most MaxRedo redo-OCR rounds per document
\* ends with the final summary and processed = total.
C38_RunTerminates == <>(pc = "done" /\ stats.processed = stats.total)

====
